---- MODULE Spec2Model ----
(***************************************************************************)
(* Telemetry ingestion, anomaly detection and forecasting-model lifecycle  *)
(* of the groundwater backend (app/services/telemetry.py,                  *)
(* app/services/data_processing.py, app/services/ml_forecasting.py).       *)
(*                                                                         *)
(* Numbers are integers.  A z-score z = |x - mean| / std over a window w   *)
(* of n values is kept exact by comparing squares:                         *)
(*     z > t   <=>   (n*x - Sum(w))^2 > t^2 * (n*SumSq(w) - Sum(w)^2)      *)
(* and std = 0 <=> n*SumSq(w) - Sum(w)^2 = 0.                              *)
(***************************************************************************)
EXTENDS Integers, Sequences, FiniteSets, TLC

\* ------------------------------------------------------------------------
\* Bounds of the model
\* ------------------------------------------------------------------------
\* number of inbound messages handled in one behaviour
MaxMsgs == 2

\* ------------------------------------------------------------------------
\* Program constants
\* ------------------------------------------------------------------------
\* detect_anomalies asks for a 30 day window
HistoryDays == 30
\* fewer points than this is "insufficient historical data"
MinHistory == 10
\* anomaly_threshold = 3.0
anomaly_threshold == 3
\* 'high' if z_score > 5 else 'medium'
high_threshold == 5
\* redis expire of latest_data
LatestTTL == 3600
\* redis expire of sensor_status
StatusTTL == 86400

\* ------------------------------------------------------------------------
\* Input domains
\* ------------------------------------------------------------------------
Stations == {"S1", "S2"}
Sensors == {"W1"}
Pairs == Stations \X Sensors

\* wall clock of the run, in days; payload timestamps are days too
Now == 40
\* one timestamp older than the 30 day window, one inside it
Times == {0, 39}
Values == {10, 500}
Units == {"meters"}

RequiredFields == {"timestamp", "value", "unit"}

Restrict(f, S) == [k \in S |-> f[k]]

\* the complete payloads: both values with a timestamp inside the window,
\* and the far value with the old timestamp
FullPayloads ==
    { [timestamp |-> t, value |-> v, unit |-> u] : t \in Times, v \in Values, u \in Units }
        \ { [timestamp |-> 0, value |-> 10, unit |-> "meters"] }

\* the payloads a sensor sends on .../data: the complete ones, and one
\* reading with any of the three fields left out
DataPayloads ==
    FullPayloads \cup
    { Restrict([timestamp |-> 39, value |-> 500, unit |-> "meters"], F) :
        F \in (SUBSET RequiredFields) \ {RequiredFields} }

StatusFields == {"battery_level", "signal_strength", "firmware_version", "status"}

FullStatus ==
    [battery_level |-> "87", signal_strength |-> "-70", firmware_version |-> "1.2", status |-> "online"]

\* a complete status report and a partial one
StatusPayloads == { FullStatus, Restrict(FullStatus, {"battery_level"}) }

\* ------------------------------------------------------------------------
\* Pre-existing content of the Time-Series Store
\* ------------------------------------------------------------------------
Point(st, se, t, v) == [station_id |-> st, sensor_id |-> se, timestamp |-> t, value |-> v]

\* n points inside the window whose values alternate lo, hi
AltHistory(st, se, n, lo, hi) ==
    [i \in 1..n |-> Point(st, se, Now - 1, IF i % 2 = 1 THEN lo ELSE hi)]

HistoryKinds == {"empty", "nine", "const", "var"}

History(kind, st, se) ==
    CASE kind = "empty" -> << >>
      [] kind = "nine"  -> AltHistory(st, se, MinHistory - 1, 9, 11)
      [] kind = "const" -> AltHistory(st, se, MinHistory, 10, 10)
      [] kind = "var"   -> AltHistory(st, se, 30, 9, 11)

\* ------------------------------------------------------------------------
\* State
\* ------------------------------------------------------------------------
VARIABLES
    tsStore,      \* Time-Series Store, measurement sensor_data: sequence of points
    latest,       \* Cache: latest_data:{station}:{sensor} -> hash with TTL
    status,       \* Cache: sensor_status:{station}:{sensor} -> hash with TTL
    anomalies,    \* relational table of AnomalyDetection rows
    alerts,       \* relational table of Alert rows
    cur,          \* the message handler in flight (its locals and position)
    kafkaAlive,   \* the for-loop of process_kafka_messages is still running
    nmsgs,        \* messages received so far
    weather,      \* Time-Series Store, measurement weather_data: station -> timestamps
    models,       \* MLForecastingService.models: model_key -> fitted regressor
    scalers,      \* MLForecastingService.scalers: model_key -> fitted scaler
    modelFile,    \* models/{model_key}_model.joblib
    scalerFile,   \* models/{model_key}_scaler.joblib
    forecasts,    \* relational table of WaterLevelForecast rows
    job,          \* the forecasting call in flight (its locals and position)
    trainRuns,    \* train runs started so far
    droughts,     \* relational table of DroughtRiskAssessment rows
    calc,         \* the method or block evaluated on its own, with its arguments and result
    recharges,    \* relational table of RechargeEstimate rows
    trends,       \* Time-Series Store, measurement trend_data: sequence of points
    patterns,     \* Time-Series Store, measurement pattern_data: sequence of points
    batch,        \* the last process_batch_data call: its groups and what they found
    handlers,     \* message handlers that run side by side: handler -> locals and position
    pending,      \* handler -> the commands of its hset call that are still to be sent
    writes,       \* the handlers in the order in which their hset calls were completed
    catalog,      \* relational table of Station rows, in insertion order
    requests,     \* create_station calls: client -> its locals, position and response
    loop,         \* the create_station call the event loop is running, 0 when none
    ncreates      \* create_station calls received so far

\* state of ingestion and detection, state of the forecasting service
ivars == << tsStore, latest, status, anomalies, alerts, cur, kafkaAlive, nmsgs >>
fvars == << weather, models, scalers, modelFile, scalerFile, forecasts, job, trainRuns >>
\* state of the analytics calls and of evaluations of single methods
\* tables and catalogs of the remaining services
cvars == << catalog, requests, loop, ncreates >>
xvars == << recharges, trends, patterns, batch, handlers, pending, writes, cvars >>
avars == << droughts, calc, xvars >>
vars == << ivars, fvars, avars >>

NoEntry == [present |-> FALSE]
\* a key that was written by hset and never given an expiry
NoTTL == -1

IdleTask ==
    [id |-> 0, channel |-> "none", kind |-> "none", st |-> "", se |-> "",
     data |-> << >>, pc |-> "idle", effects |-> << >>, window |-> << >>,
     storeFailed |-> FALSE, dbFailed |-> FALSE, cacheFailed |-> FALSE, raised |-> FALSE]

NewTask(id, channel, kind, st, se, payload, pc) ==
    [IdleTask EXCEPT !.id = id, !.channel = channel, !.kind = kind, !.st = st,
                     !.se = se, !.data = payload, !.pc = pc]

Free == cur.pc \in {"idle", "done"}

\* ------------------------------------------------------------------------
\* Pure helpers of the handlers
\* ------------------------------------------------------------------------
RECURSIVE SumSeq(_)
SumSeq(w) == IF w = << >> THEN 0 ELSE Head(w) + SumSeq(Tail(w))

RECURSIVE SumSq(_)
SumSq(w) == IF w = << >> THEN 0 ELSE Head(w) * Head(w) + SumSq(Tail(w))

Abs(x) == IF x < 0 THEN -x ELSE x

Range(s) == { s[i] : i \in 1..Len(s) }

\* n^2 * variance of the window (np.std is the population deviation)
VarNum(w) == Len(w) * SumSq(w) - SumSeq(w) * SumSeq(w)

\* n * |x - mean|
DevNum(x, w) == Abs(Len(w) * x - SumSeq(w))

\* z_score > t, for an integer t >= 0 and a window with std > 0
ZAbove(x, w, t) == DevNum(x, w) * DevNum(x, w) > t * t * VarNum(w)

\* _validate_sensor_data: all three required fields are present
ValidateMissesUnit(data) == {"timestamp", "value"} \subseteq DOMAIN data
_validate_sensor_data(data) == \A field \in RequiredFields : field \in DOMAIN data

\* data['station_id'] = ..., data['sensor_id'] = ..., data['received_at'] = now
Enrich(data, st, se, at) ==
    [k \in DOMAIN data \cup {"station_id", "sensor_id", "received_at"} |->
        CASE k = "station_id"  -> st
          [] k = "sensor_id"   -> se
          [] k = "received_at" -> at
          [] OTHER             -> data[k]]

\* the range(start: now - days) filter of the flux queries
InRange(t, days) == t >= Now - days /\ t <= Now

\* the points of one key inside the range, in the order they were written
Matching(store, st, se, days) ==
    LET Test(p) == p.station_id = st /\ p.sensor_id = se /\ InRange(p.timestamp, days)
    IN SelectSeq(store, Test)

\* the _value column of a query result (mean and std do not depend on the
\* order, so the sort by _time is left out here)
SelectValues(store, st, se, days) ==
    LET m == Matching(store, st, se, days)
    IN [i \in 1..Len(m) |-> m[i].value]

\* _get_historical_data: the values of the key inside the window, [] on a query error
_get_historical_data(st, se, queryOk) ==
    IF queryOk THEN SelectValues(tsStore, st, se, HistoryDays) ELSE << >>

\* detect_anomalies line 33: not historical_data or len(historical_data) < 10
InsufficientLoose(h) == Len(h) < 5
Insufficient(h) == h = << >> \/ Len(h) < MinHistory

\* detect_anomalies line 44: std_val == 0
ZeroStdIgnored(w) == FALSE
ZeroStd(w) == VarNum(w) = 0

\* detect_anomalies line 50: z_score > anomaly_threshold
IsAnomalyAtTwo(x, w) == ZAbove(x, w, 2)
IsAnomaly(x, w) == ZAbove(x, w, anomaly_threshold)

\* _create_anomaly_alert line 102: 'high' if z_score > 5 else 'medium'
SeverityAlwaysHigh(x, w) == "high"
Severity(x, w) == IF ZAbove(x, w, high_threshold) THEN "high" ELSE "medium"

\* z_score as the exact pair (n^2 |x-mean|^2, n^2 var); mean as the pair (sum, n)
ZScore(x, w) == << DevNum(x, w) * DevNum(x, w), VarNum(w) >>
Mean(w) == << SumSeq(w), Len(w) >>

AnomalyRow(t) ==
    LET x == t.data.value
    IN [station_id |-> t.st, sensor_id |-> t.se, timestamp |-> t.data.timestamp,
        anomaly_type |-> "statistical_outlier", severity |-> Severity(x, t.window),
        anomaly_score |-> ZScore(x, t.window), expected_value |-> Mean(t.window),
        actual_value |-> x, msg |-> t.id]

AlertRow(t) ==
    LET x == t.data.value
    IN [station_id |-> t.st, alert_type |-> "sensor_anomaly",
        severity |-> Severity(x, t.window), sensor_id |-> t.se,
        anomaly_score |-> ZScore(x, t.window), expected_value |-> Mean(t.window),
        actual_value |-> x, msg |-> t.id]

\* redis hset of latest_data: numbers are stored as their text
LatestHash(data) ==
    [timestamp |-> data.timestamp, value |-> ToString(data.value), unit |-> data.unit,
     received_at |-> data.received_at]

\* redis hset of sensor_status: data.get(field, 'unknown')
StatusHash(data, at) ==
    [f \in StatusFields \cup {"last_seen"} |->
        IF f = "last_seen" THEN ToString(at)
        ELSE IF f \in DOMAIN data THEN data[f] ELSE "unknown"]

\* hset followed by expire on one key; either call can raise
\* outcome "ok": both ran; "hset_fails": nothing written; "expire_fails": the
\* hash is written and the key keeps the expiry it had (none for a new key)
CacheWrite(old, hash, ttl, outcome) ==
    CASE outcome = "ok"           -> [present |-> TRUE, hash |-> hash, ttl |-> ttl]
      [] outcome = "hset_fails"   -> old
      [] outcome = "expire_fails" ->
            [present |-> TRUE, hash |-> hash, ttl |-> IF old.present THEN old.ttl ELSE NoTTL]

CacheOutcomes == {"ok", "hset_fails", "expire_fails"}

\* get_latest_data(station_id, sensor_id): the decoded hash, or None
NoData == [none |-> TRUE]
get_latest_data(st, se) ==
    IF latest[<< st, se >>].present THEN latest[<< st, se >>].hash ELSE NoData

\* ------------------------------------------------------------------------
\* Initial state: empty caches and tables; the store may already hold history
\* ------------------------------------------------------------------------
IngestIdle ==
    /\ latest = [p \in Pairs |-> NoEntry]
    /\ status = [p \in Pairs |-> NoEntry]
    /\ anomalies = << >>
    /\ alerts = << >>
    /\ cur = IdleTask
    /\ kafkaAlive = TRUE
    /\ nmsgs = 0

IngestInit ==
    /\ \E kind \in HistoryKinds : tsStore = History(kind, "S1", "W1")
    /\ IngestIdle

\* ------------------------------------------------------------------------
\* Message Ingress
\* ------------------------------------------------------------------------
\* the handler returns (or raises) to whoever awaited it; an exception that
\* reaches the for-loop of process_kafka_messages ends the loop
Finish(t, raised) ==
    /\ cur' = [t EXCEPT !.pc = "done", !.raised = raised]
    /\ kafkaAlive' = IF t.channel = "kafka" /\ raised THEN FALSE ELSE kafkaAlive

\* _on_mqtt_message: groundwater/{station}/{sensor}/{data_type}
\* (taskOk = FALSE: create_task raises, the callback logs and returns)
MqttMessage(st, se, dataType, payload, taskOk) ==
    /\ Free
    /\ nmsgs < MaxMsgs
    /\ nmsgs' = nmsgs + 1
    /\ cur' = IF ~taskOk THEN IdleTask
              ELSE IF dataType = "data"
                   THEN NewTask(nmsgs + 1, "mqtt", "data", st, se, payload, "validate")
              ELSE IF dataType = "status"
                   THEN NewTask(nmsgs + 1, "mqtt", "status", st, se, payload, "status")
              ELSE IdleTask
    /\ UNCHANGED << tsStore, latest, status, anomalies, alerts, kafkaAlive >>
    /\ UNCHANGED fvars
    /\ UNCHANGED avars

\* process_kafka_messages: one iteration of the for-loop
\* shape "object": a JSON object carrying station_id and sensor_id;
\* "no_ids": an object without them (warning, next message);
\* "not_object": message.value has no .get, the loop's except ends the loop
KafkaMessage(st, se, payload, shape) ==
    /\ Free
    /\ kafkaAlive
    /\ nmsgs < MaxMsgs
    /\ nmsgs' = nmsgs + 1
    /\ cur' = IF shape = "object"
              THEN NewTask(nmsgs + 1, "kafka", "data", st, se, payload, "validate")
              ELSE IdleTask
    /\ kafkaAlive' = (shape # "not_object")
    /\ UNCHANGED << tsStore, latest, status, anomalies, alerts >>
    /\ UNCHANGED fvars
    /\ UNCHANGED avars

\* _process_sensor_data lines 95-102: validation, then enrichment
Validate ==
    /\ cur.pc = "validate"
    /\ IF _validate_sensor_data(cur.data)
       THEN /\ cur' = [cur EXCEPT !.data = Enrich(cur.data, cur.st, cur.se, cur.id),
                                  !.pc = "store"]
            /\ UNCHANGED kafkaAlive
       ELSE Finish(cur, FALSE)
    /\ UNCHANGED << tsStore, latest, status, anomalies, alerts, nmsgs >>
    /\ UNCHANGED fvars
    /\ UNCHANGED avars

\* the order of the three effects of _process_sensor_data, lines 104-111
PcAfterStoreCacheFirst(pc) ==
    CASE pc = "store" -> "cache" [] pc = "cache" -> "detect" [] OTHER -> "done"
PcAfter(pc) ==
    CASE pc = "store" -> "detect" [] pc = "detect" -> "cache" [] OTHER -> "done"

\* what _process_sensor_data does with an exception of _store_influx_data:
\* its own except clause logs it and the handler returns
StoreFailureSwallowed(t) == [t EXCEPT !.storeFailed = TRUE, !.pc = PcAfter("store")]
OnStoreFailure(t) == [t EXCEPT !.storeFailed = TRUE, !.pc = "done"]

\* _store_influx_data: write one point of measurement sensor_data, or raise
StoreInflux ==
    /\ cur.pc = "store"
    /\ \E ok \in BOOLEAN :
        IF ok
        THEN /\ tsStore' = Append(tsStore,
                    Point(cur.data.station_id, cur.data.sensor_id,
                          cur.data.timestamp, cur.data.value))
             /\ cur' = [cur EXCEPT !.effects = Append(@, "store"), !.pc = PcAfter("store")]
             /\ UNCHANGED kafkaAlive
        ELSE /\ cur' = OnStoreFailure(cur)
             /\ UNCHANGED << tsStore, kafkaAlive >>
    /\ UNCHANGED << latest, status, anomalies, alerts, nmsgs >>
    /\ UNCHANGED fvars
    /\ UNCHANGED avars

\* the detector has returned to _process_sensor_data (it never raises)
DetectorReturns(t) ==
    IF PcAfter("detect") = "done" THEN Finish(t, FALSE)
    ELSE cur' = [t EXCEPT !.pc = PcAfter("detect")] /\ UNCHANGED kafkaAlive

\* what detect_anomalies does with the MLForecastingService that its
\* DataProcessor holds (self.ml_service, line 25): nothing, it is never called
MlServiceRetrains(t) ==
    /\ models' = [models EXCEPT ![t.st \o "_" \o t.se] = t.id]
    /\ scalers' = [scalers EXCEPT ![t.st \o "_" \o t.se] = t.id]
    /\ UNCHANGED << weather, modelFile, scalerFile, forecasts, job, trainRuns >>
MlService(t) == UNCHANGED fvars

\* detect_anomalies lines 29-53, up to the call of _create_anomaly_alert
DetectAnomalies ==
    /\ cur.pc = "detect"
    /\ \E queryOk \in BOOLEAN :
        LET h == _get_historical_data(cur.st, cur.se, queryOk)
            x == cur.data.value
            t == [cur EXCEPT !.effects = Append(@, "detect"), !.window = h]
        IN IF Insufficient(h) THEN DetectorReturns(t)
           ELSE IF ZeroStd(h) THEN DetectorReturns(t)
           ELSE IF IsAnomaly(x, h) THEN cur' = [t EXCEPT !.pc = "anomaly"] /\ UNCHANGED kafkaAlive
           ELSE DetectorReturns(t)
    /\ UNCHANGED << tsStore, latest, status, anomalies, alerts, nmsgs >>
    /\ MlService(cur)
    /\ UNCHANGED avars

\* _create_anomaly_alert lines 95-110: the AnomalyDetection row and its commit;
\* on an exception the except clause logs it and the detector returns
CommitAnomaly ==
    /\ cur.pc = "anomaly"
    /\ \E ok \in BOOLEAN :
        IF ok
        THEN /\ anomalies' = Append(anomalies, AnomalyRow(cur))
             /\ cur' = [cur EXCEPT !.pc = "alert"]
             /\ UNCHANGED kafkaAlive
        ELSE /\ DetectorReturns([cur EXCEPT !.dbFailed = TRUE])
             /\ UNCHANGED anomalies
    /\ UNCHANGED << tsStore, latest, status, alerts, nmsgs >>
    /\ UNCHANGED fvars
    /\ UNCHANGED avars

\* _create_anomaly_alert lines 112-128: the Alert row and its own commit
CommitAlert ==
    /\ cur.pc = "alert"
    /\ \E ok \in BOOLEAN :
        /\ alerts' = IF ok THEN Append(alerts, AlertRow(cur)) ELSE alerts
        /\ DetectorReturns([cur EXCEPT !.dbFailed = ~ok])
    /\ UNCHANGED << tsStore, latest, status, anomalies, nmsgs >>
    /\ UNCHANGED fvars
    /\ UNCHANGED avars

\* _cache_latest_data: hset + expire(3600); its except clause swallows errors
CacheLatest ==
    /\ cur.pc = "cache"
    /\ \E outcome \in CacheOutcomes :
        LET key == << cur.st, cur.se >>
            t == [cur EXCEPT !.effects = IF outcome = "hset_fails" THEN @
                                         ELSE Append(@, "cache"),
                             !.cacheFailed = (outcome # "ok")]
        IN /\ latest' = [latest EXCEPT ![key] =
                            CacheWrite(@, LatestHash(cur.data), LatestTTL, outcome)]
           /\ IF PcAfter("cache") = "done" THEN Finish(t, FALSE)
              ELSE cur' = [t EXCEPT !.pc = PcAfter("cache")] /\ UNCHANGED kafkaAlive
    /\ UNCHANGED << tsStore, status, anomalies, alerts, nmsgs >>
    /\ UNCHANGED fvars
    /\ UNCHANGED avars

\* the key a status report writes, line 122
StatusTargetLatest(t) == "latest"
StatusTarget(t) == "status"

\* _process_status_data: hset + expire(86400) of the sensor_status key
ProcessStatus ==
    /\ cur.pc = "status"
    /\ \E outcome \in CacheOutcomes :
        LET key == << cur.st, cur.se >>
            hash == StatusHash(cur.data, cur.id)
        IN /\ IF StatusTarget(cur) = "status"
              THEN /\ status' = [status EXCEPT ![key] = CacheWrite(@, hash, StatusTTL, outcome)]
                   /\ UNCHANGED latest
              ELSE /\ latest' = [latest EXCEPT ![key] = CacheWrite(@, hash, StatusTTL, outcome)]
                   /\ UNCHANGED status
           /\ Finish([cur EXCEPT !.effects = IF outcome = "hset_fails" THEN @
                                              ELSE Append(@, "status"),
                                 !.cacheFailed = (outcome # "ok")], FALSE)
    /\ UNCHANGED << tsStore, anomalies, alerts, nmsgs >>
    /\ UNCHANGED fvars
    /\ UNCHANGED avars

IngestNext ==
    \/ \E st \in Stations, se \in Sensors, payload \in DataPayloads, taskOk \in BOOLEAN :
          MqttMessage(st, se, "data", payload, taskOk)
    \/ \E st \in Stations, se \in Sensors, payload \in StatusPayloads :
          MqttMessage(st, se, "status", payload, TRUE)
    \/ \E st \in Stations, se \in Sensors, payload \in DataPayloads,
          shape \in {"object", "no_ids", "not_object"} :
          KafkaMessage(st, se, payload, shape)
    \/ Validate
    \/ StoreInflux
    \/ DetectAnomalies
    \/ CommitAnomaly
    \/ CommitAlert
    \/ CacheLatest
    \/ ProcessStatus

\* ------------------------------------------------------------------------
\* Forecasting Service (ml_forecasting.py)
\* ------------------------------------------------------------------------
\* train runs started in one behaviour
MaxTrainRuns == 2

\* len(data) < 100
MinRawRows == 100
\* len(X) < 50
MinFeatureRows == 50
\* _prepare_features: len(df) < 10 after dropna
MinPreparedRows == 10
\* the longest lag, shift(24): the first 24 rows have a missing feature
MaxLag == 24
\* _get_training_data(days=365)
TrainDays == 365
\* _get_recent_data(hours=48), in days
RecentDays == 2

\* model_key = f"{station_id}_{sensor_id}"
ModelKey(st, se) == st \o "_" \o se
ModelKeys == { ModelKey(p[1], p[2]) : p \in Pairs }

\* a registry slot or artifact file that is absent; a truncated artifact file
NoModel == 0
Corrupt == -1

\* ml_forecasting.py imports no module-level os: the name os is bound only
\* inside _save_model, so os.path.exists in load_model raises NameError
OsImported == FALSE

\* datetime.datetime has no attribute dayofyear (line 365 raises AttributeError)
DatetimeHasDayOfYear == FALSE

IdleJob ==
    [op |-> "none", st |-> "", se |-> "", key |-> "", pc |-> "idle", version |-> 0,
     status |-> "", training_samples |-> 0, test_samples |-> 0,
     train_rows |-> {}, test_rows |-> {}, excepted |-> {},
     points |-> << >>, found |-> FALSE, context |-> << >>, horizon |-> 0,
     risk_level |-> "", risk_score |-> 0, method |-> "", recharge_mm |-> 0,
     raised |-> FALSE]

JobFree == job.pc \in {"idle", "done"}

\* the except clause that closes train, predict, assess_drought_risk and
\* estimate_recharge (lines 88-90, 315-317, 495-497, 561-563): the exception
\* raised at `site` is logged and the method returns its error result
OnExceptionReraises(t, site) ==
    [t EXCEPT !.pc = "done", !.excepted = @ \cup {site}, !.raised = TRUE]
OnException(t, site) ==
    LET e == [t EXCEPT !.pc = "done", !.excepted = @ \cup {site}]
    IN CASE t.op = "train" -> [e EXCEPT !.status = "error"]
         [] t.op = "predict" -> [e EXCEPT !.points = << >>]
         [] t.op = "assess" -> [e EXCEPT !.risk_level = "unknown", !.risk_score = 0]
         [] t.op = "estimate" -> [e EXCEPT !.method = "error", !.recharge_mm = 0]

\* sort(columns: ["_time"]): points in time order, ties in written order
SortByTime(pts) ==
    LET n == Len(pts)
        rank == [i \in 1..n |-> Cardinality({ j \in 1..n :
                    \/ pts[j].timestamp < pts[i].timestamp
                    \/ (pts[j].timestamp = pts[i].timestamp /\ j < i) })]
    IN [r \in 1..n |-> pts[CHOOSE i \in 1..n : rank[i] = r - 1]]

\* timestamps of the key's sensor_data points in the last `days` days
StampsOf(st, se, days) ==
    { tsStore[i].timestamp : i \in { k \in 1..Len(tsStore) :
        /\ tsStore[k].station_id = st
        /\ tsStore[k].sensor_id = se
        /\ InRange(tsStore[k].timestamp, days) } }

\* _get_training_data: one row per timestamp (sensor_data is a dict keyed by
\* timestamp, combined in sorted key order); [] on a query error.  The rows
\* are given as the set of their timestamps, row k being the k-th smallest.
_get_training_data(st, se, queryOk) ==
    IF queryOk THEN StampsOf(st, se, TrainDays) ELSE {}

Min(S) == CHOOSE x \in S : \A y \in S : x <= y

\* the row number of timestamp t among the rows
RowOf(data, t) == Cardinality({ y \in data : y < t }) + 1

\* the first row that dropna keeps: all lag and rolling features exist from
\* row MaxLag + 1 on; a weather column first filled at row w (forward fill
\* leaves the rows before it empty) has its 24 h lag from row w + MaxLag on
FirstFullRow(data, st) ==
    IF data \cap weather[st] = {} THEN MaxLag + 1
    ELSE RowOf(data, Min(data \cap weather[st])) + MaxLag

\* _prepare_features: the rows of X, again as timestamps; X = None (no data,
\* fewer than 10 rows left) is rendered as no rows
_prepare_features(data, st) ==
    LET dropped == IF data = {} THEN 0 ELSE FirstFullRow(data, st) - 1
        kept == Cardinality(data) - dropped
    IN IF data = {} \/ kept < MinPreparedRows
       THEN {}
       ELSE { t \in data : Cardinality({ y \in data : y > t }) < kept }

\* line 38: len(data) < 100
TooFewRowsAtFifty(data) == Cardinality(data) < MinFeatureRows
TooFewRows(data) == Cardinality(data) < MinRawRows

\* line 45: X is None or len(X) < 50
TooFewFeaturesAtTen(X) == X = {} \/ Cardinality(X) < MinPreparedRows
TooFewFeatures(X) == X = {} \/ Cardinality(X) < MinFeatureRows

\* split_idx = int(len(X) * 0.8)
SplitIdxSmallShare(n) == (n * 2) \div 10
SplitIdx(n) == (n * 8) \div 10

\* X[:split_idx] and X[split_idx:], X being in the order of its time index
XTrain(X) == { t \in X : RowOf(X, t) <= SplitIdx(Cardinality(X)) }
XTest(X) == { t \in X : RowOf(X, t) > SplitIdx(Cardinality(X)) }

\* train_water_level_model lines 34-75: fetch, checks, split, fit, and the
\* registration of the fitted pair under model_key
TrainStart(st, se, queryOk, fitOk) ==
    /\ JobFree
    /\ trainRuns < MaxTrainRuns
    /\ trainRuns' = trainRuns + 1
    /\ LET key == ModelKey(st, se)
           v == trainRuns + 1
           data == _get_training_data(st, se, queryOk)
           X == _prepare_features(data, st)
           t == [IdleJob EXCEPT !.op = "train", !.st = st, !.se = se, !.key = key,
                                !.version = v,
                                !.excepted = IF queryOk THEN {} ELSE {"query"}]
       IN IF TooFewRows(data)
          THEN /\ job' = [t EXCEPT !.pc = "done", !.status = "insufficient_data"]
               /\ UNCHANGED << models, scalers >>
          ELSE IF TooFewFeatures(X)
          THEN /\ job' = [t EXCEPT !.pc = "done", !.status = "insufficient_features"]
               /\ UNCHANGED << models, scalers >>
          ELSE IF ~fitOk
          THEN /\ job' = OnException(t, "fit")
               /\ UNCHANGED << models, scalers >>
          ELSE /\ job' = [t EXCEPT !.pc = "save_model",
                                   !.train_rows = XTrain(X),
                                   !.test_rows = XTest(X),
                                   !.training_samples = Cardinality(XTrain(X)),
                                   !.test_samples = Cardinality(XTest(X))]
               /\ models' = [models EXCEPT ![key] = v]
               /\ scalers' = [scalers EXCEPT ![key] = v]
    /\ UNCHANGED << weather, modelFile, scalerFile, forecasts >>
    /\ UNCHANGED ivars
    /\ UNCHANGED avars

\* joblib.dump of one artifact: written, or raised before the file was
\* opened, or raised after the file was truncated
DumpOutcomes == {"ok", "fails", "truncates"}
Dump(old, v, outcome) ==
    CASE outcome = "ok" -> v [] outcome = "fails" -> old [] outcome = "truncates" -> Corrupt

\* what train returns once _save_model is over: _save_model logs its own
\* exceptions (saved = FALSE), so the result is success either way
TrainReturnsSaveError(t, saved) ==
    [t EXCEPT !.pc = "done", !.status = IF saved THEN "success" ELSE "error",
              !.excepted = IF saved THEN @ ELSE @ \cup {"save"}]
TrainReturns(t, saved) ==
    [t EXCEPT !.pc = "done", !.status = "success",
              !.excepted = IF saved THEN @ ELSE @ \cup {"save"}]

\* _save_model lines 218-223: makedirs and the regressor file
SaveModelFile ==
    /\ job.pc = "save_model"
    /\ \E outcome \in DumpOutcomes :
        /\ modelFile' = [modelFile EXCEPT ![job.key] = Dump(@, job.version, outcome)]
        /\ job' = IF outcome = "ok" THEN [job EXCEPT !.pc = "save_scaler"]
                  ELSE TrainReturns(job, FALSE)
    /\ UNCHANGED << weather, models, scalers, scalerFile, forecasts, trainRuns >>
    /\ UNCHANGED ivars
    /\ UNCHANGED avars

\* _save_model lines 225-227: the scaler file
SaveScalerFile ==
    /\ job.pc = "save_scaler"
    /\ \E outcome \in DumpOutcomes :
        /\ scalerFile' = [scalerFile EXCEPT ![job.key] = Dump(@, job.version, outcome)]
        /\ job' = TrainReturns(job, outcome = "ok")
    /\ UNCHANGED << weather, models, scalers, modelFile, forecasts, trainRuns >>
    /\ UNCHANGED ivars
    /\ UNCHANGED avars

\* the process stops while _save_model is between or before its two writes
Interrupt ==
    /\ job.pc \in {"save_model", "save_scaler"}
    /\ job' = IdleJob
    /\ models' = [k \in ModelKeys |-> NoModel]
    /\ scalers' = [k \in ModelKeys |-> NoModel]
    /\ UNCHANGED << weather, modelFile, scalerFile, forecasts, trainRuns >>
    /\ UNCHANGED ivars
    /\ UNCHANGED avars

\* MLForecastingService(): a new instance starts with empty registries
NewService ==
    /\ JobFree
    /\ \E k \in ModelKeys : models[k] # NoModel
    /\ job' = IdleJob
    /\ models' = [k \in ModelKeys |-> NoModel]
    /\ scalers' = [k \in ModelKeys |-> NoModel]
    /\ UNCHANGED << weather, modelFile, scalerFile, forecasts, trainRuns >>
    /\ UNCHANGED ivars
    /\ UNCHANGED avars

\* load_model: both files must exist and deserialize; every exception,
\* the NameError of os included, is caught and reported as False
LoadsWithEitherFile(key) ==
    IF modelFile[key] # NoModel \/ scalerFile[key] # NoModel
    THEN [found |-> TRUE, model |-> modelFile[key], scaler |-> scalerFile[key]]
    ELSE [found |-> FALSE, model |-> models[key], scaler |-> scalers[key]]
load_model(key) ==
    IF /\ OsImported
       /\ modelFile[key] # NoModel
       /\ scalerFile[key] # NoModel
       /\ modelFile[key] # Corrupt
       /\ scalerFile[key] # Corrupt
    THEN [found |-> TRUE, model |-> modelFile[key], scaler |-> scalerFile[key]]
    ELSE [found |-> FALSE, model |-> models[key], scaler |-> scalers[key]]

LoadModel(st, se) ==
    /\ JobFree
    /\ LET key == ModelKey(st, se)
           r == load_model(key)
       IN /\ models' = [models EXCEPT ![key] = r.model]
          /\ scalers' = [scalers EXCEPT ![key] = r.scaler]
          /\ job' = [IdleJob EXCEPT !.op = "load", !.st = st, !.se = se, !.key = key,
                                    !.pc = "done", !.found = r.found]
    /\ UNCHANGED << weather, modelFile, scalerFile, forecasts, trainRuns >>
    /\ UNCHANGED ivars
    /\ UNCHANGED avars

\* _get_recent_data(hours=48): the key's points in time order, [] on a query error
SelectPoints(store, st, se, days) ==
    LET m == SortByTime(Matching(store, st, se, days))
    IN [i \in 1..Len(m) |-> [timestamp |-> m[i].timestamp, water_level |-> m[i].value]]

_get_recent_data(st, se, queryOk) ==
    IF queryOk THEN SelectPoints(tsStore, st, se, RecentDays) ELSE << >>

\* _prepare_prediction_features: None (rendered FALSE) when the context is
\* empty or when building the calendar features raises
_prepare_prediction_features(data, hour) ==
    data # << >> /\ DatetimeHasDayOfYear

\* model.predict on the features of the context: the regressor is opaque,
\* its output is taken to be the last level of the context
ModelPredict(data) == data[Len(data)].water_level

\* confidence_interval = 0.1 * abs(prediction), levels in tenths of a unit
ForecastPointNoAbs(prediction, hour) ==
    [predicted_level |-> 10 * prediction,
     confidence_lower |-> 10 * prediction - prediction,
     confidence_upper |-> 10 * prediction + prediction,
     horizon_hours |-> hour]
ForecastPointOf(prediction, hour) ==
    [predicted_level |-> 10 * prediction,
     confidence_lower |-> 10 * prediction - Abs(prediction),
     confidence_upper |-> 10 * prediction + Abs(prediction),
     horizon_hours |-> hour]

\* the for-loop of predict_water_level, lines 280-308
RECURSIVE PredictLoop(_, _, _, _)
PredictLoop(current_data, hour, horizon_hours, predictions) ==
    IF hour > horizon_hours THEN predictions
    ELSE IF ~_prepare_prediction_features(current_data, hour) THEN predictions
    ELSE LET prediction == ModelPredict(current_data)
         IN PredictLoop(
                Append(current_data, [timestamp |-> Now, water_level |-> prediction]),
                hour + 1, horizon_hours,
                Append(predictions, ForecastPointOf(prediction, hour)))

\* the rows _store_predictions adds, one per point
ForecastRows(st, points) ==
    [i \in 1..Len(points) |->
        [station_id |-> st, predicted_level |-> points[i].predicted_level,
         confidence_interval_lower |-> points[i].confidence_lower,
         confidence_interval_upper |-> points[i].confidence_upper,
         horizon_hours |-> points[i].horizon_hours,
         model_name |-> "random_forest", model_version |-> "1.0"]]

\* next(get_db()) raises, or a row constructor or db.commit() raises
DbOutcomes == {"ok", "session_fails", "commit_fails"}

\* _store_predictions: the table after the call; an exception is logged and
\* nothing is stored
_store_predictions(st, predictions, outcome) ==
    IF outcome = "ok" THEN forecasts \o ForecastRows(st, predictions) ELSE forecasts

\* lines 311-317: what predict returns after _store_predictions.  When the
\* session could not be made, db.close() in the finally clause raises on the
\* unbound name and predict's own handler returns []
PredictReturnsDespiteNoSession(predictions, outcome) == predictions
PredictReturns(predictions, outcome) ==
    IF outcome = "session_fails" THEN << >> ELSE predictions

Horizons == {1, 3}

\* predict_water_level
Predict(st, se, horizon_hours, queryOk, outcome) ==
    /\ JobFree
    /\ LET key == ModelKey(st, se)
           r == IF models[key] = NoModel THEN load_model(key)
                ELSE [found |-> TRUE, model |-> models[key], scaler |-> scalers[key]]
           recent_data == _get_recent_data(st, se, queryOk)
           t == [IdleJob EXCEPT !.op = "predict", !.st = st, !.se = se, !.key = key,
                                !.pc = "done", !.found = r.found,
                                !.horizon = horizon_hours,
                                !.context = IF r.found THEN recent_data ELSE << >>]
       IN IF ~r.found
          THEN /\ job' = t
               /\ UNCHANGED << models, scalers, forecasts >>
          ELSE /\ models' = [models EXCEPT ![key] = r.model]
               /\ scalers' = [scalers EXCEPT ![key] = r.scaler]
               /\ IF recent_data = << >>
                  THEN /\ job' = t
                       /\ UNCHANGED forecasts
                  ELSE LET predictions == PredictLoop(recent_data, 1, horizon_hours, << >>)
                       IN /\ job' = IF outcome = "session_fails"
                                    THEN [OnException(t, "session") EXCEPT
                                            !.points = PredictReturns(predictions, outcome)]
                                    ELSE [t EXCEPT
                                            !.points = PredictReturns(predictions, outcome),
                                            !.excepted = IF outcome = "ok" THEN {}
                                                         ELSE {"commit"}]
                          /\ forecasts' = _store_predictions(st, predictions, outcome)
    /\ UNCHANGED << weather, modelFile, scalerFile, trainRuns >>
    /\ UNCHANGED ivars
    /\ UNCHANGED avars

\* ------------------------------------------------------------------------
\* Drought risk (assess_drought_risk)
\* ------------------------------------------------------------------------
\* _get_recent_data(station_id, sensor_id, days=90)
AssessDays == 90

\* _get_recent_data takes hours, not days: the call of line 425 raises
\* TypeError, which the handler of line 495 turns into the unknown result
RecentDataTakesDays == FALSE

\* the 7 latest levels enter the trend
TrendWindow == 7

\* scores and contributions are in tenths.  The comparisons of lines 449-464
\* do not change when current_level, mean_level, std_level and min_level are
\* all multiplied by the same n > 0, so a history is passed as
\* n * current, sum, n^2 * variance, n * min.
\* lines 449-452: current_level < mean_level - std_level, then < mean_level
LevelContribution(current_level, mean_level, variance) ==
    IF /\ mean_level - current_level > 0
       /\ (mean_level - current_level) * (mean_level - current_level) > variance
    THEN 3
    ELSE IF current_level < mean_level THEN 1 ELSE 0

\* lines 455-458: recent_trend = num / den < -0.01, then < -0.005
TrendContributionCumulative(num, den) ==
    (IF 1000 * num < (0 - 10) * den THEN 2 ELSE 0) + (IF 1000 * num < (0 - 5) * den THEN 1 ELSE 0)
TrendContribution(num, den) ==
    IF 1000 * num < (0 - 10) * den THEN 2
    ELSE IF 1000 * num < (0 - 5) * den THEN 1 ELSE 0

\* lines 461-464: current_level < min_level * 1.1, then < min_level * 1.2
MinContributionTiersSwapped(current_level, min_level) ==
    IF 10 * current_level < 11 * min_level THEN 1
    ELSE IF 10 * current_level < 12 * min_level THEN 3 ELSE 0
MinContribution(current_level, min_level) ==
    IF 10 * current_level < 11 * min_level THEN 3
    ELSE IF 10 * current_level < 12 * min_level THEN 1 ELSE 0

\* lines 446-464
RiskScore(current_level, mean_level, variance, min_level, num, den) ==
    LevelContribution(current_level, mean_level, variance)
        + TrendContribution(num, den)
        + MinContribution(current_level, min_level)

\* lines 467-474
RiskLevel(risk_score) ==
    IF risk_score >= 7 THEN "critical"
    ELSE IF risk_score >= 5 THEN "high"
    ELSE IF risk_score >= 3 THEN "medium" ELSE "low"

\* np.polyfit(range(7), levels[-7:], 1)[0] = sum((x - 3) * y_x) / 28
TrendNum(levels) ==
    LET n == Len(levels)
        term(x) == (x - 3) * levels[n - TrendWindow + 1 + x]
    IN term(0) + term(1) + term(2) + term(3) + term(4) + term(5) + term(6)
TrendDen == 28

MinOf(levels) == CHOOSE x \in Range(levels) : \A y \in Range(levels) : x <= y

\* lines 431-464 on the levels of the query result
RiskScoreOf(levels) ==
    LET n == Len(levels)
    IN RiskScore(n * levels[n], SumSeq(levels), VarNum(levels), n * MinOf(levels),
                 IF n > TrendWindow THEN TrendNum(levels) ELSE 0, TrendDen)

\* _store_drought_assessment: the table after the call; an exception is
\* logged and nothing is stored
_store_drought_assessment(st, risk_level, risk_score, outcome) ==
    IF outcome = "ok"
    THEN Append(droughts, [station_id |-> st, risk_level |-> risk_level, risk_score |-> risk_score])
    ELSE droughts

\* assess_drought_risk
AssessDroughtRisk(st, se, queryOk, outcome) ==
    /\ JobFree
    /\ LET t == [IdleJob EXCEPT !.op = "assess", !.st = st, !.se = se,
                                !.key = ModelKey(st, se), !.pc = "done"]
           unknown == [t EXCEPT !.risk_level = "unknown", !.risk_score = 0]
           recent_data == IF queryOk THEN SelectPoints(tsStore, st, se, AssessDays) ELSE << >>
           levels == [i \in 1..Len(recent_data) |-> recent_data[i].water_level]
       IN IF ~RecentDataTakesDays
          THEN /\ job' = OnException(t, "call")
               /\ UNCHANGED droughts
          ELSE IF recent_data = << >>
          THEN /\ job' = unknown
               /\ UNCHANGED droughts
          ELSE LET risk_score == RiskScoreOf(levels)
                   risk_level == RiskLevel(risk_score)
               IN /\ droughts' = _store_drought_assessment(st, risk_level, risk_score, outcome)
                  /\ job' = IF outcome = "session_fails"
                            THEN OnException(t, "session")
                            ELSE [t EXCEPT !.risk_level = risk_level, !.risk_score = risk_score]
    /\ calc' = calc
    /\ UNCHANGED xvars
    /\ UNCHANGED << weather, models, scalers, modelFile, scalerFile, forecasts, trainRuns >>
    /\ UNCHANGED ivars

\* estimate_recharge looks back 30 days by default (line 530)
EstimateDays == 30
MinLevelReadings == 7

\* lines 540-548: max(0, level_change * 1000) + total_rainfall, levels in
\* metres, rainfall in mm; sum([]) of no rainfall rows is 0
Recharge(water_levels, rainfall_data) ==
    LET level_change == water_levels[Len(water_levels)] - water_levels[1]
        total_rainfall == IF rainfall_data # << >> THEN SumSeq(rainfall_data) ELSE 0
    IN (IF level_change * 1000 > 0 THEN level_change * 1000 ELSE 0) + total_rainfall

\* _store_recharge_estimate: the table after the call; an exception is
\* logged and nothing is stored
_store_recharge_estimate(st, recharge, rainfall, outcome) ==
    IF outcome = "ok"
    THEN Append(recharges, [station_id |-> st, recharge_mm |-> recharge,
                            method |-> "water_balance", rainfall_mm |-> rainfall])
    ELSE recharges

\* rainfall_mm values that _get_rainfall_data hands back ([] also on a query error)
RainfallChoices == { << >>, << 5 >>, << 2, 3 >> }

\* estimate_recharge
EstimateRecharge(st, queryOk, rainfall_data, outcome) ==
    /\ JobFree
    /\ LET t == [IdleJob EXCEPT !.op = "estimate", !.st = st, !.se = "water_level",
                                !.pc = "done"]
           water_data == IF queryOk THEN SelectPoints(tsStore, st, "water_level", EstimateDays)
                         ELSE << >>
           water_levels == [i \in 1..Len(water_data) |-> water_data[i].water_level]
       IN IF ~RecentDataTakesDays
          THEN /\ job' = OnException(t, "call")
               /\ UNCHANGED recharges
          ELSE IF Len(water_data) < MinLevelReadings
          THEN /\ job' = [t EXCEPT !.method = "insufficient_data", !.recharge_mm = 0]
               /\ UNCHANGED recharges
          ELSE LET recharge == Recharge(water_levels, rainfall_data)
               IN /\ recharges' = _store_recharge_estimate(st, recharge,
                                        SumSeq(rainfall_data), outcome)
                  /\ job' = IF outcome = "session_fails"
                            THEN OnException(t, "session")
                            ELSE [t EXCEPT !.method = "water_balance",
                                           !.recharge_mm = recharge]
    /\ UNCHANGED << droughts, calc, cvars, trends, patterns, batch, handlers, pending, writes >>
    /\ UNCHANGED << weather, models, scalers, modelFile, scalerFile, forecasts, trainRuns >>
    /\ UNCHANGED ivars

\* ------------------------------------------------------------------------
\* Trend & Pattern Analyzer (process_batch_data)
\* ------------------------------------------------------------------------
\* data_processing.py imports neither Point nor get_redis_client: building a
\* point in _store_trend_data (line 314) or _store_pattern_data (line 333)
\* raises NameError, which the method logs; sensor_health is not written either
PointIsImported == TRUE
PointImported == FALSE

\* batch timestamps are hours since a Monday 00:00
HourOf(t) == t % 24
WeekdayOf(t) == (t \div 24) % 7

MinPatternPoints == 24
MinHours == 12
MinWeekdays == 4
\* variance > np.var(values) * 0.1, resp. * 0.05, as 1/10 and 1/20
DailyShare == 10
WeeklyShare == 20

\* sum of x * y over x = 0..n-1
SumXY(values) == SumSeq([i \in 1..Len(values) |-> (i - 1) * values[i]])

\* np.polyfit(arange(n), values, 1)[0] = SlopeNum / SlopeDen, SlopeDen > 0
SlopeNum(values) ==
    LET n == Len(values)
    IN n * SumXY(values) - ((n * (n - 1)) \div 2) * SumSeq(values)
SlopeDen(n) == VarNum([i \in 1..n |-> i - 1])

\* _calculate_trend, for two values or more (the correlation, a function of
\* the same sums, is left out); rate_of_change_per_hour is rate_num / hours
_calculate_trend(values, timestamps) ==
    LET n == Len(values)
        time_diff == timestamps[n] - timestamps[1]
    IN [slope_num |-> SlopeNum(values), slope_den |-> SlopeDen(n),
        rate_num |-> IF time_diff > 0 THEN values[n] - values[1] ELSE 0,
        hours |-> IF time_diff > 0 THEN time_diff ELSE 1,
        trend_direction |-> IF SlopeNum(values) > 0 THEN "increasing"
                            ELSE IF SlopeNum(values) < 0 THEN "decreasing" ELSE "stable"]

\* least common multiple of the group sizes of a batch
Lcm(counts) ==
    CHOOSE l \in 1..(MinPatternPoints * MinPatternPoints) :
        /\ \A c \in counts : l % c = 0
        /\ \A m \in 1..(l - 1) : \E c \in counts : m % c # 0

\* the values grouped by hour of day or by weekday (groups[i] is the group of
\* values[i]) and the group means, each multiplied by scale
GroupSum(values, groups, g) ==
    SumSeq([i \in 1..Len(values) |-> IF groups[i] = g THEN values[i] ELSE 0])
GroupCount(groups, g) == Cardinality({ i \in 1..Len(groups) : groups[i] = g })
GroupScale(groups) == Lcm({ GroupCount(groups, g) : g \in Range(groups) })
GroupMeans(values, groups) ==
    LET scale == GroupScale(groups)
        ids == Range(groups)
        rank(g) == Cardinality({ h \in ids : h < g }) + 1
    IN [r \in 1..Cardinality(ids) |->
            LET g == CHOOSE h \in ids : rank(h) = r
            IN GroupSum(values, groups, g) * (scale \div GroupCount(groups, g))]

\* np.var(avg_values) > np.var(values) / share, in exact arithmetic: with k
\* means scaled by L, VarNum(means) / (k L)^2 > VarNum(values) / (share n^2)
\* (the variant compares the variance of the means with 1 / share)
SignificantAbsolute(values, means, scale, share) ==
    share * VarNum(means) > Len(means) * Len(means) * scale * scale
Significant(values, means, scale, share) ==
    share * VarNum(means) * Len(values) * Len(values) >
        VarNum(values) * Len(means) * Len(means) * scale * scale

NoPattern == [pattern_type |-> "none"]

\* a pattern record: variance is var_num / var_den, confidence is
\* min(1, variance / np.var(values)) = conf_num / conf_den
PatternOf(pattern_type, values, means, scale) ==
    LET n == Len(values)
        k == Len(means)
        num == VarNum(means) * n * n
        den == VarNum(values) * k * k * scale * scale
    IN [pattern_type |-> pattern_type,
        var_num |-> VarNum(means), var_den |-> k * k * scale * scale,
        conf_num |-> IF num < den THEN num ELSE den, conf_den |-> den]

\* _detect_daily_pattern
_detect_daily_pattern(values, timestamps) ==
    LET hours == [i \in 1..Len(timestamps) |-> HourOf(timestamps[i])]
        hourly_avg == GroupMeans(values, hours)
    IN IF Len(hourly_avg) < MinHours THEN NoPattern
       ELSE IF Significant(values, hourly_avg, GroupScale(hours), DailyShare)
       THEN PatternOf("daily", values, hourly_avg, GroupScale(hours))
       ELSE NoPattern

\* _detect_weekly_pattern
_detect_weekly_pattern(values, timestamps) ==
    LET days == [i \in 1..Len(timestamps) |-> WeekdayOf(timestamps[i])]
        daily_avg == GroupMeans(values, days)
    IN IF Len(daily_avg) < MinWeekdays THEN NoPattern
       ELSE IF Significant(values, daily_avg, GroupScale(days), WeeklyShare)
       THEN PatternOf("weekly", values, daily_avg, GroupScale(days))
       ELSE NoPattern

\* _detect_patterns: the daily and the weekly pattern that were found
_detect_patterns(values, timestamps) ==
    IF Len(values) < MinPatternPoints THEN << >>
    ELSE LET Found(pt) == pt # NoPattern
         IN SelectSeq(<< _detect_daily_pattern(values, timestamps),
                         _detect_weekly_pattern(values, timestamps) >>, Found)

\* _store_trend_data: the measurement after the call
_store_trend_data(tbl, station_id, sensor_id, trend) ==
    IF PointImported
    THEN Append(tbl, [station_id |-> station_id, sensor_id |-> sensor_id,
                      slope_num |-> trend.slope_num, slope_den |-> trend.slope_den,
                      rate_num |-> trend.rate_num, hours |-> trend.hours])
    ELSE tbl

\* _store_pattern_data: the measurement after the call, one point per pattern
_store_pattern_data(tbl, station_id, sensor_id, found) ==
    IF PointImported
    THEN tbl \o [i \in 1..Len(found) |->
                    [station_id |-> station_id, sensor_id |-> sensor_id,
                     pattern_type |-> found[i].pattern_type,
                     var_num |-> found[i].var_num, var_den |-> found[i].var_den,
                     conf_num |-> found[i].conf_num, conf_den |-> found[i].conf_den]]
    ELSE tbl

\* key = f"{data['station_id']}_{data['sensor_id']}" (line 143)
BatchKey(d) == d.station_id \o "_" \o d.sensor_id

\* id.split('_') for the identifiers of the model
Segments(id) ==
    CASE id = "a_b" -> << "a", "b" >>
      [] id = "b_c" -> << "b", "c" >>
      [] OTHER -> << id >>

\* grouped_data: the keys in the order of their first reading
RECURSIVE KeysInOrder(_, _)
KeysInOrder(data_batch, seen) ==
    IF data_batch = << >> THEN seen
    ELSE KeysInOrder(Tail(data_batch),
                     IF BatchKey(Head(data_batch)) \in Range(seen) THEN seen
                     ELSE Append(seen, BatchKey(Head(data_batch))))

\* _process_sensor_group: the two measurements after the call and what the
\* group gave
_process_sensor_group(acc, station_id, sensor_id, group_data) ==
    LET data == SortByTime(group_data)
        values == [i \in 1..Len(data) |-> data[i].value]
        timestamps == [i \in 1..Len(data) |-> data[i].timestamp]
        found == _detect_patterns(values, timestamps)
    IN [acc EXCEPT
          !.trends = IF Len(values) > 1
                     THEN _store_trend_data(@, station_id, sensor_id,
                                            _calculate_trend(values, timestamps))
                     ELSE @,
          !.patterns = IF found # << >>
                       THEN _store_pattern_data(@, station_id, sensor_id, found)
                       ELSE @,
          !.groups = Append(@, [station_id |-> station_id, sensor_id |-> sensor_id,
                                values |-> values, timestamps |-> timestamps,
                                found |-> found])]

\* the loop of lines 149-151: key.split('_') gives the two identifiers back,
\* or raises ValueError when it has more than two parts, which ends the call
RECURSIVE ProcessGroups(_, _, _)
ProcessGroups(keys, data_batch, acc) ==
    IF keys = << >> THEN acc
    ELSE LET Test(d) == BatchKey(d) = Head(keys)
             group_data == SelectSeq(data_batch, Test)
             parts == Segments(group_data[1].station_id) \o Segments(group_data[1].sensor_id)
         IN IF Len(parts) # 2
            THEN [acc EXCEPT !.aborted = TRUE]
            ELSE ProcessGroups(Tail(keys), data_batch,
                               _process_sensor_group(acc, parts[1], parts[2], group_data))

NoBatch == [groups |-> << >>, aborted |-> FALSE, size |-> 0]

\* process_batch_data
ProcessBatchData(data_batch) ==
    /\ LET acc == ProcessGroups(KeysInOrder(data_batch, << >>), data_batch,
                                [trends |-> trends, patterns |-> patterns,
                                 groups |-> << >>, aborted |-> FALSE])
       IN /\ trends' = acc.trends
          /\ patterns' = acc.patterns
          /\ batch' = [groups |-> acc.groups, aborted |-> acc.aborted,
                       size |-> Len(data_batch)]
    /\ UNCHANGED << droughts, calc, cvars, recharges, handlers, pending, writes >>
    /\ UNCHANGED ivars
    /\ UNCHANGED fvars

\* ------------------------------------------------------------------------
\* Two handlers of _process_sensor_data side by side on one key
\* ------------------------------------------------------------------------
Handlers == {1, 2}

\* the commands that redis_client.hset(cache_key, mapping={...}) sends: one
\* HSET that carries all four fields (the variant sends one HSET per field)
HsetFieldByField(hash) ==
    << {"timestamp"}, {"value"}, {"unit"}, {"received_at"} >>
HsetCommands(hash) == << DOMAIN hash >>

\* one HSET on an entry: the fields it names are overwritten, the other
\* fields and the expiry of the key stay
ApplyHset(old, hash, fields) ==
    [present |-> TRUE,
     hash |-> [f \in (IF old.present THEN DOMAIN old.hash ELSE {}) \cup fields |->
                IF f \in fields THEN hash[f] ELSE old.hash[f]],
     ttl |-> IF old.present THEN old.ttl ELSE NoTTL]

\* EXPIRE on an entry
ApplyExpire(old, ttl) == IF old.present THEN [old EXCEPT !.ttl = ttl] ELSE old

HandlersIdle ==
    /\ handlers = [h \in Handlers |-> IdleTask]
    /\ pending = [h \in Handlers |-> << >>]
    /\ writes = << >>

\* a data message of S1/W1 arrives and its handler is started
HandlerStart(h, payload) ==
    /\ handlers[h].pc = "idle"
    /\ handlers' = [handlers EXCEPT ![h] =
                        NewTask(h, "mqtt", "data", "S1", "W1", payload, "validate")]
    /\ UNCHANGED << pending, writes, recharges, trends, patterns, batch, droughts, calc, cvars >>
    /\ UNCHANGED ivars
    /\ UNCHANGED fvars

\* _process_sensor_data lines 95-102
HandlerValidate(h) ==
    /\ handlers[h].pc = "validate"
    /\ LET t == handlers[h]
       IN handlers' = [handlers EXCEPT ![h] =
            IF _validate_sensor_data(t.data)
            THEN [t EXCEPT !.data = Enrich(t.data, t.st, t.se, t.id), !.pc = "store"]
            ELSE [t EXCEPT !.pc = "done"]]
    /\ UNCHANGED << pending, writes, recharges, trends, patterns, batch, droughts, calc, cvars >>
    /\ UNCHANGED ivars
    /\ UNCHANGED fvars

\* _store_influx_data, line 105
HandlerStore(h, ok) ==
    /\ handlers[h].pc = "store"
    /\ LET t == handlers[h]
       IN IF ok
          THEN /\ tsStore' = Append(tsStore, Point(t.data.station_id, t.data.sensor_id,
                                                   t.data.timestamp, t.data.value))
               /\ handlers' = [handlers EXCEPT ![h] =
                        [t EXCEPT !.effects = Append(@, "store"), !.pc = PcAfter("store")]]
          ELSE /\ handlers' = [handlers EXCEPT ![h] = OnStoreFailure(t)]
               /\ UNCHANGED tsStore
    /\ UNCHANGED << latest, status, anomalies, alerts, cur, kafkaAlive, nmsgs >>
    /\ UNCHANGED << pending, writes, recharges, trends, patterns, batch, droughts, calc, cvars >>
    /\ UNCHANGED fvars

\* detect_anomalies, line 108, with the rows of _create_anomaly_alert
HandlerDetect(h, queryOk, anomalyOk, alertOk) ==
    /\ handlers[h].pc = "detect"
    /\ LET w == _get_historical_data(handlers[h].st, handlers[h].se, queryOk)
           t == [handlers[h] EXCEPT !.effects = Append(@, "detect"), !.window = w,
                                    !.pc = PcAfter("detect")]
           scored == ~Insufficient(w) /\ ~ZeroStd(w) /\ IsAnomaly(t.data.value, w)
       IN /\ anomalies' = IF scored /\ anomalyOk THEN Append(anomalies, AnomalyRow(t))
                          ELSE anomalies
          /\ alerts' = IF scored /\ anomalyOk /\ alertOk THEN Append(alerts, AlertRow(t))
                       ELSE alerts
          /\ handlers' = [handlers EXCEPT ![h] =
                            [t EXCEPT !.dbFailed = scored /\ ~(anomalyOk /\ alertOk)]]
    /\ UNCHANGED << tsStore, latest, status, cur, kafkaAlive, nmsgs >>
    /\ UNCHANGED << pending, writes, recharges, trends, patterns, batch, droughts, calc, cvars >>
    /\ UNCHANGED fvars

\* _cache_latest_data, line 174: the hset call is entered
HandlerCache(h) ==
    /\ handlers[h].pc = "cache"
    /\ handlers' = [handlers EXCEPT ![h].pc = "hset"]
    /\ pending' = [pending EXCEPT ![h] = HsetCommands(LatestHash(handlers[h].data))]
    /\ UNCHANGED << writes, recharges, trends, patterns, batch, droughts, calc, cvars >>
    /\ UNCHANGED ivars
    /\ UNCHANGED fvars

\* one command of the hset call reaches the cache, or the call raises and
\* the except clause of line 183 ends the handler
HandlerHset(h, ok) ==
    /\ handlers[h].pc = "hset"
    /\ LET t == handlers[h]
           key == << t.st, t.se >>
           last == Len(pending[h]) = 1
       IN IF ok
          THEN /\ latest' = [latest EXCEPT ![key] =
                                ApplyHset(@, LatestHash(t.data), Head(pending[h]))]
               /\ pending' = [pending EXCEPT ![h] = Tail(@)]
               /\ writes' = IF last THEN Append(writes, h) ELSE writes
               /\ handlers' = [handlers EXCEPT ![h] =
                        IF last THEN [t EXCEPT !.effects = Append(@, "cache"), !.pc = "expire"]
                        ELSE t]
          ELSE /\ handlers' = [handlers EXCEPT ![h] =
                                [t EXCEPT !.cacheFailed = TRUE, !.pc = "done"]]
               /\ pending' = [pending EXCEPT ![h] = << >>]
               /\ UNCHANGED << latest, writes >>
    /\ UNCHANGED << tsStore, status, anomalies, alerts, cur, kafkaAlive, nmsgs >>
    /\ UNCHANGED << recharges, trends, patterns, batch, droughts, calc, cvars >>
    /\ UNCHANGED fvars

\* redis_client.expire(cache_key, 3600), line 182
HandlerExpire(h, ok) ==
    /\ handlers[h].pc = "expire"
    /\ LET t == handlers[h]
           key == << t.st, t.se >>
       IN /\ latest' = IF ok THEN [latest EXCEPT ![key] = ApplyExpire(@, LatestTTL)]
                       ELSE latest
          /\ handlers' = [handlers EXCEPT ![h] =
                            [t EXCEPT !.cacheFailed = ~ok, !.pc = PcAfter("cache")]]
    /\ UNCHANGED << tsStore, status, anomalies, alerts, cur, kafkaAlive, nmsgs >>
    /\ UNCHANGED << pending, writes, recharges, trends, patterns, batch, droughts, calc, cvars >>
    /\ UNCHANGED fvars


\* rows of training history a behaviour can start with
TrainRowChoices == {0, 99, 130}

\* ------------------------------------------------------------------------
\* Station catalog: create_station calls on one event loop
\* ------------------------------------------------------------------------

Clients == {1, 2}
MaxCreates == 3
StationIds == {"EXIST001", "NEW001"}
StationNames == {"New Station", "Duplicate Station"}
StationCreate == [station_id : StationIds, name : StationNames]
NoStation == [station_id |-> "", name |-> ""]
SeedCatalog == << [station_id |-> "EXIST001", name |-> "Existing Station"] >>

IdleRequest ==
    [pc |-> "idle", station_data |-> NoStation, status_code |-> 0, overlapped |-> FALSE]

CatalogIdle ==
    /\ catalog = SeedCatalog
    /\ requests = [c \in Clients |-> IdleRequest]
    /\ loop = 0
    /\ ncreates = 0

InFlight(c) == requests[c].pc \in {"ready", "query", "commit"}

\* db.query(Station).filter(Station.station_id == station_id).first()
Existing(rows, station_id) == \E i \in 1..Len(rows) : rows[i].station_id = station_id

\* the positions of create_station at which the coroutine gives up the
\* event loop: its body has no await
SuspendsBeforeCommit(pc) == pc = "commit"
Suspends(pc) == FALSE

\* a POST /stations/ arrives; its dependencies are resolved and the call
\* waits for the event loop
CreateStationRequest(c, station_data) ==
    /\ requests[c].pc \in {"idle", "done"}
    /\ ncreates < MaxCreates
    /\ ncreates' = ncreates + 1
    /\ requests' = [requests EXCEPT ![c] =
                        [pc |-> "ready", station_data |-> station_data, status_code |-> 0,
                         overlapped |-> \E d \in Clients \ {c} : InFlight(d)]]
    /\ UNCHANGED << catalog, loop >>

\* the event loop runs a call that waits: a new one from its first
\* statement, a suspended one from where it stopped
EventLoopRuns(c) ==
    /\ loop = 0
    /\ \/ /\ requests[c].pc = "ready"
          /\ requests' = [requests EXCEPT ![c].pc = "query"]
       \/ /\ requests[c].pc = "commit"
          /\ UNCHANGED requests
    /\ loop' = c
    /\ UNCHANGED << catalog, ncreates >>

\* existing = ...first(); if existing: raise HTTPException(status_code=400)
CreateStationQuery(c) ==
    /\ loop = c
    /\ requests[c].pc = "query"
    /\ IF Existing(catalog, requests[c].station_data.station_id)
       THEN /\ requests' = [requests EXCEPT ![c].pc = "done", ![c].status_code = 400]
            /\ loop' = 0
       ELSE /\ requests' = [requests EXCEPT ![c].pc = "commit"]
            /\ loop' = IF Suspends("commit") THEN 0 ELSE c
    /\ UNCHANGED << catalog, ncreates >>

\* station = Station(**station_data.dict()); db.add; db.commit; db.refresh;
\* a commit that raises ends the call with status 500 and adds nothing
CreateStationCommit(c, ok) ==
    /\ loop = c
    /\ requests[c].pc = "commit"
    /\ catalog' = IF ok THEN Append(catalog, requests[c].station_data) ELSE catalog
    /\ requests' = [requests EXCEPT ![c].pc = "done",
                                    ![c].status_code = IF ok THEN 200 ELSE 500]
    /\ loop' = 0
    /\ UNCHANGED ncreates

CatalogNext ==
    /\ \/ \E c \in Clients, station_data \in StationCreate : CreateStationRequest(c, station_data)
       \/ \E c \in Clients : EventLoopRuns(c)
       \/ \E c \in Clients : CreateStationQuery(c)
       \/ \E c \in Clients, ok \in BOOLEAN : CreateStationCommit(c, ok)
    /\ UNCHANGED << recharges, trends, patterns, batch, handlers, pending, writes, droughts, calc >>
    /\ UNCHANGED ivars
    /\ UNCHANGED fvars

\* n hourly readings of S1/W1 up to now
TrainHistory(n) == [i \in 1..n |-> Point("S1", "W1", Now - n + i, 10 + (i % 3))]

\* eight daily readings of S1 under the sensor id that estimate_recharge
\* asks for, rising by one a day
LevelReadings == 8
LevelHistory ==
    [i \in 1..LevelReadings |-> Point("S1", "water_level", Now - LevelReadings + i, 10 + i)]

ForecastIdle ==
    /\ models = [k \in ModelKeys |-> NoModel]
    /\ scalers = [k \in ModelKeys |-> NoModel]
    /\ modelFile = [k \in ModelKeys |-> NoModel]
    /\ scalerFile = [k \in ModelKeys |-> NoModel]
    /\ forecasts = << >>
    /\ job = IdleJob
    /\ trainRuns = 0

\* weather_data of a station: none, at every reading, or at the last k only
\* (k - 24 rows are then usable: 6, 49 and 50 of them)
WeatherTails == {MaxLag + 6, MaxLag + MinFeatureRows - 1, MaxLag + MinFeatureRows}
WeatherChoices(n) ==
    { {}, { Now - n + i : i \in 1..n } } \cup
    { { Now - n + i : i \in (n - k + 1)..n } : k \in WeatherTails }

\* no assessment stored, nothing evaluated on its own
NoCalc == [fn |-> "none"]
AnalyticsIdle ==
    /\ droughts = << >>
    /\ calc = NoCalc
    /\ recharges = << >>
    /\ trends = << >>
    /\ patterns = << >>
    /\ batch = NoBatch
    /\ HandlersIdle
    /\ CatalogIdle

ForecastInit ==
    /\ \E n \in TrainRowChoices :
        /\ tsStore = TrainHistory(n) \o LevelHistory
        /\ \E w \in WeatherChoices(n) : weather = [st \in Stations |-> IF st = "S1" THEN w ELSE {}]
    /\ IngestIdle
    /\ ForecastIdle
    /\ AnalyticsIdle

ForecastNext ==
    \/ \E st \in Stations, se \in Sensors, queryOk \in BOOLEAN, fitOk \in BOOLEAN :
          TrainStart(st, se, queryOk, fitOk)
    \/ SaveModelFile
    \/ SaveScalerFile
    \/ Interrupt
    \/ NewService
    \/ \E st \in Stations, se \in Sensors : LoadModel(st, se)
    \/ \E st \in Stations, se \in Sensors, h \in Horizons, queryOk \in BOOLEAN,
          outcome \in DbOutcomes :
          Predict(st, se, h, queryOk, outcome)
    \/ \E st \in Stations, se \in Sensors, queryOk \in BOOLEAN, outcome \in DbOutcomes :
          AssessDroughtRisk(st, se, queryOk, outcome)
    \/ \E st \in Stations, queryOk \in BOOLEAN, rainfall_data \in RainfallChoices,
          outcome \in DbOutcomes :
          EstimateRecharge(st, queryOk, rainfall_data, outcome)

ForecastSpec == ForecastInit /\ [][ForecastNext]_vars

\* ------------------------------------------------------------------------
\* Blocks of the Forecasting Service evaluated on their own arguments
\* ------------------------------------------------------------------------
\* model outputs range over -MaxPrediction..MaxPrediction
MaxPrediction == 30
Predictions == (0 - MaxPrediction)..MaxPrediction

\* lists of at most MaxPoints points, as the loop of predict builds them
MaxPoints == 2
PointLists ==
    { [i \in 1..k |-> ForecastPointOf(p + i, i)] : k \in 1..MaxPoints, p \in {-5, -1, 12} }

\* lines 291-302: one model output turned into a forecast point
EvalForecastPoint(prediction, hour) ==
    /\ calc = NoCalc
    /\ calc' = [fn |-> "forecast_point", prediction |-> prediction,
                point |-> ForecastPointOf(prediction, hour)]
    /\ UNCHANGED << droughts >>
    /\ UNCHANGED xvars
    /\ UNCHANGED ivars
    /\ UNCHANGED fvars

\* lines 310-317: the points of the loop are stored and returned
StoreAndReturn(st, predictions, outcome) ==
    /\ calc = NoCalc
    /\ forecasts' = _store_predictions(st, predictions, outcome)
    /\ calc' = [fn |-> "store_and_return", st |-> st, predictions |-> predictions,
                returned |-> PredictReturns(predictions, outcome)]
    /\ UNCHANGED << weather, models, scalers, modelFile, scalerFile, job, trainRuns >>
    /\ UNCHANGED << droughts >>
    /\ UNCHANGED xvars
    /\ UNCHANGED ivars

\* levels, their mean and their minimum range over -MaxLevel..MaxLevel, the
\* standard deviation over 0..MaxStd, the trend over a few slopes (in 1/1000)
MaxLevel == 12
MaxStd == 2
Levels == (0 - MaxLevel)..MaxLevel
Trends == {-20, -10, -7, -5, 0, 5}

\* lines 445-474: the score of a current level, the statistics of a history
\* (its minimum is at most its mean and at most the current level) and a trend
EvalRiskScore(current_level, mean_level, std_level, min_level, trend) ==
    /\ calc = NoCalc
    /\ min_level <= current_level
    /\ min_level <= mean_level
    /\ LET variance == std_level * std_level
           score == RiskScore(current_level, mean_level, variance, min_level, trend, 1000)
       IN calc' = [fn |-> "risk_score", current_level |-> current_level,
                   mean_level |-> mean_level, variance |-> variance,
                   min_level |-> min_level, trend |-> trend,
                   level_part |-> LevelContribution(current_level, mean_level, variance),
                   trend_part |-> TrendContribution(trend, 1000),
                   min_part |-> MinContribution(current_level, min_level),
                   risk_score |-> score, risk_level |-> RiskLevel(score)]
    /\ UNCHANGED << droughts >>
    /\ UNCHANGED xvars
    /\ UNCHANGED ivars
    /\ UNCHANGED fvars

\* batches handed to process_batch_data: 24 readings of one pair, one per
\* hour of a day (constant; constant but for one reading; low by night and
\* high by day, handed over latest first), 23 such readings, 24 readings over
\* 12 hours whose hourly means are equal, 24 readings six hours apart that
\* rise from weekday to weekday, two readings, or a single reading
BatchShapes == {"constant", "near", "pronounced", "short", "flat12", "week", "two", "single"}
BatchLen(shape) ==
    CASE shape = "short" -> MinPatternPoints - 1 [] shape = "single" -> 1
      [] shape = "two" -> 2 [] OTHER -> MinPatternPoints
BatchTime(shape, i) ==
    CASE shape = "pronounced" -> MinPatternPoints - i
      [] shape = "flat12" -> (i - 1) % 12
      [] shape = "week" -> 6 * (i - 1)
      [] OTHER -> i - 1
BatchValue(shape, i) ==
    CASE shape = "constant" -> 10
      [] shape = "near" -> IF i = 1 THEN 11 ELSE 10
      [] shape = "flat12" -> IF i <= 12 THEN 4 ELSE 12
      [] shape = "week" -> 4 + WeekdayOf(BatchTime(shape, i))
      [] shape = "two" -> 10 + i
      [] OTHER -> IF HourOf(BatchTime(shape, i)) < 12 THEN 4 ELSE 12
Readings(pair, shape) ==
    [i \in 1..BatchLen(shape) |->
        [station_id |-> pair[1], sensor_id |-> pair[2],
         timestamp |-> BatchTime(shape, i), value |-> BatchValue(shape, i)]]

\* pairs of a batch: the pairs of the store and two whose identifiers hold an
\* underscore
BatchPairs == Pairs \cup { << "a_b", "c" >>, << "a", "b_c" >> }
BatchChoices ==
    { Readings(p, shape) : p \in BatchPairs, shape \in BatchShapes } \cup
    { Readings(pq[1], shape) \o Readings(pq[2], shape) :
        pq \in { x \in BatchPairs \X BatchPairs : x[1] # x[2] }, shape \in BatchShapes } \cup
    { Readings(pq[1], sh[1]) \o Readings(pq[2], sh[2]) :
        pq \in { x \in Pairs \X Pairs : x[1] # x[2] }, sh \in BatchShapes \X BatchShapes }

BatchInit ==
    /\ tsStore = << >>
    /\ weather = [st \in Stations |-> {}]
    /\ IngestIdle
    /\ ForecastIdle
    /\ AnalyticsIdle

\* one call per behaviour: the analyzer keeps nothing from call to call
BatchNext ==
    /\ batch = NoBatch
    /\ \E data_batch \in BatchChoices : ProcessBatchData(data_batch)

BatchSpec == BatchInit /\ [][BatchNext]_vars

\* S1/W1 has a history against which the detector scores
ConcurrentInit ==
    /\ tsStore = History("var", "S1", "W1")
    /\ weather = [st \in Stations |-> {}]
    /\ IngestIdle
    /\ ForecastIdle
    /\ AnalyticsIdle

ConcurrentNext ==
    \/ \E h \in Handlers, payload \in FullPayloads : HandlerStart(h, payload)
    \/ \E h \in Handlers : HandlerValidate(h)
    \/ \E h \in Handlers, ok \in BOOLEAN : HandlerStore(h, ok)
    \/ \E h \in Handlers, queryOk \in BOOLEAN, anomalyOk \in BOOLEAN, alertOk \in BOOLEAN :
          HandlerDetect(h, queryOk, anomalyOk, alertOk)
    \/ \E h \in Handlers : HandlerCache(h)
    \/ \E h \in Handlers, ok \in BOOLEAN : HandlerHset(h, ok)
    \/ \E h \in Handlers, ok \in BOOLEAN : HandlerExpire(h, ok)

ConcurrentSpec == ConcurrentInit /\ [][ConcurrentNext]_vars

\* the catalog holds the one station of the duplicate-id test
CatalogInit ==
    /\ tsStore = << >>
    /\ weather = [st \in Stations |-> {}]
    /\ IngestIdle
    /\ ForecastIdle
    /\ AnalyticsIdle

CatalogSpec == CatalogInit /\ [][CatalogNext]_vars

\* ------------------------------------------------------------------------
\* The model registry and the artifact files over identifiers with underscores
\* ------------------------------------------------------------------------

\* the pairs of the batch, two of them with an underscore in an identifier
RegistryPairs == BatchPairs
RegistryStations == { p[1] : p \in RegistryPairs }
RegistryKeys == { ModelKey(p[1], p[2]) : p \in RegistryPairs }

\* hourly readings up to now for every pair but S2/W1
RegistryRows == 100
RegistryHistory(p) ==
    [i \in 1..RegistryRows |-> Point(p[1], p[2], Now - RegistryRows + i, 10 + (i % 3))]

RegistryInit ==
    /\ tsStore = RegistryHistory(<< "S1", "W1" >>) \o RegistryHistory(<< "a_b", "c" >>)
                    \o RegistryHistory(<< "a", "b_c" >>)
    /\ weather = [st \in RegistryStations |-> {}]
    /\ models = [k \in RegistryKeys |-> NoModel]
    /\ scalers = [k \in RegistryKeys |-> NoModel]
    /\ modelFile = [k \in RegistryKeys |-> NoModel]
    /\ scalerFile = [k \in RegistryKeys |-> NoModel]
    /\ forecasts = << >>
    /\ job = IdleJob
    /\ trainRuns = 0
    /\ IngestIdle
    /\ AnalyticsIdle

RegistryNext ==
    \/ \E p \in RegistryPairs, queryOk \in BOOLEAN, fitOk \in BOOLEAN :
          TrainStart(p[1], p[2], queryOk, fitOk)
    \/ SaveModelFile
    \/ SaveScalerFile
    \/ \E p \in RegistryPairs : LoadModel(p[1], p[2])

RegistrySpec == RegistryInit /\ [][RegistryNext]_vars

\* ------------------------------------------------------------------------
\* Ingestion, batch analysis, training and prediction over one store
\* ------------------------------------------------------------------------
\* messages and train runs of a behaviour, taken together
MaxPipelineOps == 2

\* a reading far off the history of S1/W1, inside the 30 day window
PipelinePayloads == { [timestamp |-> 39, value |-> 500, unit |-> "meters"] }

\* a batch of two readings of S2/W1
PipelineBatches == { Readings(<< "S2", "W1" >>, "two") }

\* S1/W1 has a training history with weather at every reading, S2/W1 nothing
PipelineInit ==
    /\ tsStore = TrainHistory(130)
    /\ weather = [st \in Stations |-> IF st = "S1" THEN { Now - 130 + i : i \in 1..130 } ELSE {}]
    /\ IngestIdle
    /\ ForecastIdle
    /\ AnalyticsIdle

\* one operation at a time
PipelineNext ==
    \/ /\ JobFree
       /\ nmsgs + trainRuns < MaxPipelineOps
       /\ \E st \in Stations, se \in Sensors, payload \in PipelinePayloads :
             MqttMessage(st, se, "data", payload, TRUE)
    \/ Validate
    \/ StoreInflux
    \/ DetectAnomalies
    \/ CommitAnomaly
    \/ CommitAlert
    \/ CacheLatest
    \/ /\ Free
       /\ JobFree
       /\ \E data_batch \in PipelineBatches : ProcessBatchData(data_batch)
    \/ /\ Free
       /\ nmsgs + trainRuns < MaxPipelineOps
       /\ \E st \in Stations, se \in Sensors : TrainStart(st, se, TRUE, TRUE)
    \/ SaveModelFile
    \/ SaveScalerFile
    \/ /\ Free
       /\ \E st \in Stations, se \in Sensors : Predict(st, se, 1, TRUE, "ok")

PipelineSpec == PipelineInit /\ [][PipelineNext]_vars

UnitInit ==
    /\ tsStore = << >>
    /\ weather = [st \in Stations |-> {}]
    /\ IngestIdle
    /\ ForecastIdle
    /\ AnalyticsIdle

\* one block is evaluated per behaviour
UnitNext ==
    \/ /\ calc = NoCalc
       /\ \E prediction \in Predictions, hour \in Horizons : EvalForecastPoint(prediction, hour)
    \/ /\ calc = NoCalc
       /\ \E st \in Stations, predictions \in PointLists, outcome \in DbOutcomes :
             StoreAndReturn(st, predictions, outcome)
    \/ /\ calc = NoCalc
       /\ \E current_level \in Levels, mean_level \in Levels, std_level \in 0..MaxStd,
             min_level \in Levels, trend \in Trends :
             EvalRiskScore(current_level, mean_level, std_level, min_level, trend)

UnitSpec == UnitInit /\ [][UnitNext]_vars

Init ==
    /\ IngestInit
    /\ weather = [st \in Stations |-> {}]
    /\ ForecastIdle
    /\ AnalyticsIdle
Next == IngestNext
Spec == Init /\ [][Next]_vars

\* ------------------------------------------------------------------------
\* Properties of Message Ingress and of the Anomaly Detector
\* ------------------------------------------------------------------------
\* the handler of a data message whose payload lacks a required field
InvalidData(t) == t.kind = "data" /\ ~(RequiredFields \subseteq DOMAIN t.data)

\* the handler of a data message that passed validation and was enriched
ValidData(t) == t.kind = "data" /\ "received_at" \in DOMAIN t.data

CurKey == << cur.st, cur.se >>

\* rows of a table written on behalf of message id
RowsOf(tbl, id) == { i \in 1..Len(tbl) : tbl[i].msg = id }

\* C1: a data payload that lacks timestamp, value or unit is dropped: its
\* handler writes no point, never reaches the detector, leaves the caches
\* and tables as they were, and returns without raising.
C1_InvalidPayloadDropped ==
    /\ [](InvalidData(cur) =>
            /\ cur.pc \in {"validate", "done"}
            /\ cur.effects = << >>
            /\ ~cur.raised)
    /\ [][(cur.pc = "validate" /\ InvalidData(cur)) =>
            /\ cur'.pc = "done"
            /\ ~cur'.raised
            /\ tsStore' = tsStore
            /\ latest' = latest
            /\ status' = status
            /\ anomalies' = anomalies
            /\ alerts' = alerts
            /\ kafkaAlive' = kafkaAlive]_vars

\* an invalid payload was dropped while its key already had a cached value
C1_Witness ==
    /\ InvalidData(cur)
    /\ cur.pc = "done"
    /\ latest[CurKey].present
    /\ tsStore # << >>

\* C2: a failed store write is caught and the message discarded: the
\* detector does not run, the cache entry is not written, the handler is
\* finished for good (no retry), nothing is raised, and the consumer loop
\* stays able to take the next message.
C2_StoreFailureDiscards ==
    /\ [](cur.storeFailed =>
            /\ cur.pc = "done"
            /\ cur.effects = << >>
            /\ ~cur.raised
            /\ (cur.channel = "kafka" => kafkaAlive)
            /\ (nmsgs < MaxMsgs =>
                    ENABLED (IF cur.channel = "kafka"
                             THEN \E st \in Stations, se \in Sensors, pl \in FullPayloads :
                                     KafkaMessage(st, se, pl, "object")
                             ELSE \E st \in Stations, se \in Sensors, pl \in FullPayloads :
                                     MqttMessage(st, se, "data", pl, TRUE))))
    /\ [][(cur.pc = "store" /\ cur'.storeFailed) =>
            /\ tsStore' = tsStore
            /\ latest' = latest
            /\ anomalies' = anomalies
            /\ alerts' = alerts
            /\ kafkaAlive' = kafkaAlive]_vars
    /\ [][(cur.storeFailed /\ cur'.id = cur.id) => cur' = cur]_vars

\* the store write of a message of the consumer loop failed, the loop lives on
C2_Witness ==
    /\ cur.storeFailed
    /\ cur.channel = "kafka"
    /\ cur.pc = "done"
    /\ kafkaAlive
    /\ nmsgs < MaxMsgs

EffectOrder == << "store", "detect", "cache" >>

IsPrefix(s, t) == Len(s) <= Len(t) /\ \A i \in 1..Len(s) : s[i] = t[i]

\* C3: the effects of a valid data payload come in the order store write,
\* detector, cache write; the stored point and the cached hash are those of
\* the payload, the cache entry gets a 3600 s TTL, and the cache is written
\* only by a handler whose store write and detector run are behind it.
C3_EffectOrder ==
    /\ [](cur.kind = "data" =>
            /\ IsPrefix(cur.effects, EffectOrder)
            /\ ("store" \in Range(cur.effects) =>
                    tsStore[Len(tsStore)] =
                        Point(cur.st, cur.se, cur.data.timestamp, cur.data.value))
            /\ (ValidData(cur) /\ cur.pc = "done" /\ ~cur.storeFailed /\ ~cur.cacheFailed =>
                    /\ cur.effects = EffectOrder
                    /\ latest[CurKey] =
                        [present |-> TRUE, hash |-> LatestHash(cur.data), ttl |-> LatestTTL]))
    /\ [][latest' # latest =>
            /\ cur.kind = "data"
            /\ cur.effects = << "store", "detect" >>]_vars

\* a valid payload went through all three effects, anomaly row included
C3_Witness ==
    /\ ValidData(cur)
    /\ cur.pc = "done"
    /\ cur.effects = EffectOrder
    /\ ~cur.cacheFailed
    /\ RowsOf(anomalies, cur.id) # {}

\* C4: a status payload writes the sensor_status entry of its key only
\* (battery, signal strength, firmware, status, 86400 s TTL) and leaves the
\* Time-Series Store, the latest-value entries, the anomaly and alert tables
\* and the status entries of other keys unchanged.
C4_StatusOnlyStatusEntry ==
    [][cur.pc = "status" =>
        /\ tsStore' = tsStore
        /\ latest' = latest
        /\ anomalies' = anomalies
        /\ alerts' = alerts
        /\ \A k \in Pairs \ {CurKey} : status'[k] = status[k]
        /\ (~cur'.cacheFailed =>
              /\ status'[CurKey].present
              /\ status'[CurKey].ttl = StatusTTL
              /\ \A f \in StatusFields :
                    status'[CurKey].hash[f] =
                        IF f \in DOMAIN cur.data THEN cur.data[f] ELSE "unknown")]_vars

\* a status report was handled for a key that has readings and a cached value
C4_Witness ==
    /\ cur.kind = "status"
    /\ cur.pc = "done"
    /\ ~cur.cacheFailed
    /\ status[CurKey].present
    /\ latest[CurKey].present
    /\ tsStore # << >>

\* the detector has read a window for the message in flight
Scored(t) == t.kind = "data" /\ "detect" \in Range(t.effects) /\ t.window # << >>

\* C5: when the window the detector read has standard deviation 0, no
\* AnomalyDetection row and no Alert row is written for the reading,
\* whatever its value.
C5_ZeroStdNoAnomaly ==
    (Scored(cur) /\ VarNum(cur.window) = 0) =>
        /\ cur.pc \notin {"anomaly", "alert"}
        /\ RowsOf(anomalies, cur.id) = {}
        /\ RowsOf(alerts, cur.id) = {}

\* a reading far from a constant window of at least 10 points was scored
C5_Witness ==
    /\ Scored(cur)
    /\ VarNum(cur.window) = 0
    /\ Len(cur.window) >= 10
    /\ cur.data.value # cur.window[1]
    /\ cur.pc = "done"

\* z > 3 and z > 5 for the reading in flight, on exact integers
Z3(t) == DevNum(t.data.value, t.window) * DevNum(t.data.value, t.window) > 9 * VarNum(t.window)
Z5(t) == DevNum(t.data.value, t.window) * DevNum(t.data.value, t.window) > 25 * VarNum(t.window)

\* C6: a reading scored against a window of at least 10 points with std > 0
\* gets no row when z <= 3; when z > 3 the detector creates the row, never
\* more than one, exactly one once its commit went through, and the row's
\* severity is high iff z > 5 and medium otherwise.
C6_ThresholdAndSeverity ==
    (Scored(cur) /\ Len(cur.window) >= 10 /\ VarNum(cur.window) > 0) =>
        LET rows == RowsOf(anomalies, cur.id)
        IN IF Z3(cur)
           THEN /\ Cardinality(rows) <= 1
                /\ (cur.pc = "anomaly" => rows = {})
                /\ (cur.pc = "alert" => Cardinality(rows) = 1)
                /\ (cur.pc \in {"cache", "done"} /\ ~cur.dbFailed => Cardinality(rows) = 1)
                /\ \A i \in rows :
                      /\ anomalies[i].severity = IF Z5(cur) THEN "high" ELSE "medium"
                      /\ anomalies[i].actual_value = cur.data.value
           ELSE /\ cur.pc \notin {"anomaly", "alert"}
                /\ rows = {}

\* a reading with 3 < z <= 5 got its single row of severity medium
C6_Witness ==
    /\ Scored(cur)
    /\ Len(cur.window) >= 10
    /\ Z3(cur)
    /\ ~Z5(cur)
    /\ cur.pc = "done"
    /\ \E i \in RowsOf(anomalies, cur.id) : anomalies[i].severity = "medium"

\* a reading with z > 5 got its row of severity high
C6_WitnessHigh ==
    /\ Scored(cur)
    /\ Z5(cur)
    /\ \E i \in RowsOf(anomalies, cur.id) : anomalies[i].severity = "high"

\* a reading with 0 < z <= 3 against a sufficient window got no row
C6_WitnessBelow ==
    /\ Scored(cur)
    /\ Len(cur.window) >= 10
    /\ VarNum(cur.window) > 0
    /\ ~Z3(cur)
    /\ cur.data.value * Len(cur.window) # SumSeq(cur.window)
    /\ cur.pc = "done"

\* the points of the key that were in the window before the message's own
PriorWindow(t) ==
    SelectValues(SubSeq(tsStore, 1, Len(tsStore) - 1), t.st, t.se, HistoryDays)

\* C7: a valid data payload for a key with fewer than 10 points of history
\* is stored, gets no anomaly row, and once its handler has finished the
\* latest_data lookup of the key returns the payload's value.
C7_FirstReading ==
    (ValidData(cur) /\ "store" \in Range(cur.effects) /\ Len(PriorWindow(cur)) < 10) =>
        /\ tsStore[Len(tsStore)] = Point(cur.st, cur.se, cur.data.timestamp, cur.data.value)
        /\ cur.pc \notin {"anomaly", "alert"}
        /\ RowsOf(anomalies, cur.id) = {}
        /\ RowsOf(alerts, cur.id) = {}
        /\ (cur.pc = "done" /\ ~cur.cacheFailed =>
                /\ get_latest_data(cur.st, cur.se) # NoData
                /\ get_latest_data(cur.st, cur.se).value = ToString(cur.data.value))

\* the tenth point of a key, far from the nine before it, stored and cached
C7_Witness ==
    /\ ValidData(cur)
    /\ cur.pc = "done"
    /\ ~cur.cacheFailed
    /\ Len(PriorWindow(cur)) = 9
    /\ Len(cur.window) = 10
    /\ cur.data.value = 500
    /\ get_latest_data(cur.st, cur.se).value = "500"

\* the first point of a key with no history at all
C7_WitnessNoHistory ==
    /\ ValidData(cur)
    /\ cur.pc = "done"
    /\ ~cur.cacheFailed
    /\ PriorWindow(cur) = << >>
    /\ tsStore = << Point(cur.st, cur.se, cur.data.timestamp, cur.data.value) >>

\* C8: once a detector run has finished, every AnomalyDetection row has an
\* Alert row of the same station and sensor with the same severity, score,
\* expected value and actual value.
C8_EveryAnomalyHasAlert ==
    cur.pc \notin {"anomaly", "alert"} =>
        \A i \in 1..Len(anomalies) :
            \E j \in 1..Len(alerts) :
                /\ alerts[j].station_id = anomalies[i].station_id
                /\ alerts[j].sensor_id = anomalies[i].sensor_id
                /\ alerts[j].severity = anomalies[i].severity
                /\ alerts[j].anomaly_score = anomalies[i].anomaly_score
                /\ alerts[j].expected_value = anomalies[i].expected_value
                /\ alerts[j].actual_value = anomalies[i].actual_value

\* ------------------------------------------------------------------------
\* Properties of the Forecasting Service
\* ------------------------------------------------------------------------
\* C9: whenever no train run is in flight (it returned, or it was cut short),
\* the regressor file and the scaler file of every key come from the same
\* train run: both absent, or both written by one run.
C9_ArtifactPairAtomic ==
    JobFree =>
        \A k \in ModelKeys :
            /\ modelFile[k] = scalerFile[k]
            /\ modelFile[k] # Corrupt

\* key k has both artifact files on disk
CompletePair(k) == modelFile[k] # NoModel /\ scalerFile[k] # NoModel

\* C10: a predict call for a key that is not in the registry and has no
\* complete artifact pair on disk returns no points and leaves the registry,
\* the artifact files, the forecast table and the train-run count unchanged.
C10_PredictNeverTrains ==
    [][(/\ JobFree
        /\ job'.op = "predict"
        /\ models[job'.key] = NoModel
        /\ ~CompletePair(job'.key)) =>
            /\ job'.points = << >>
            /\ ~job'.found
            /\ models' = models
            /\ scalers' = scalers
            /\ modelFile' = modelFile
            /\ scalerFile' = scalerFile
            /\ forecasts' = forecasts
            /\ trainRuns' = trainRuns]_vars

\* predict has returned for a key with readings whose regressor file exists
\* while its scaler file does not, and whose registry slot is empty
C10_Witness ==
    /\ job.op = "predict"
    /\ job.pc = "done"
    /\ job.points = << >>
    /\ models[job.key] = NoModel
    /\ modelFile[job.key] \notin {NoModel, Corrupt}
    /\ scalerFile[job.key] = NoModel
    /\ StampsOf(job.st, job.se, RecentDays) # {}

\* C11: per key the registry is entered only by a train run that goes on to
\* return success or by a load that found both artifact files; an entry
\* always has both a regressor and a scaler; a load for a key with a missing
\* artifact file reports not trained and leaves the registry as it was.
C11_ModelLifecycle ==
    /\ [](\A k \in ModelKeys : (models[k] = NoModel) <=> (scalers[k] = NoModel))
    /\ [][\A k \in ModelKeys :
            (models[k] = NoModel /\ models'[k] # NoModel) =>
                /\ job'.key = k
                /\ \/ job'.op = "train" /\ job'.pc = "save_model"
                   \/ job'.op \in {"load", "predict"} /\ job'.found /\ CompletePair(k)]_vars
    /\ [][(job.op = "train" /\ job'.op = "train" /\ job'.pc = "done") =>
            IF job.pc \in {"save_model", "save_scaler"}
            THEN job'.status = "success"
            ELSE job'.status # "success" /\ models' = models /\ scalers' = scalers]_vars
    /\ [][(JobFree /\ job'.op = "load" /\ ~CompletePair(job'.key)) =>
            /\ ~job'.found
            /\ models' = models
            /\ scalers' = scalers]_vars

\* a train run whose save failed has returned and its key is in the registry
C11_Witness ==
    /\ job.op = "train"
    /\ job.pc = "done"
    /\ "save" \in job.excepted
    /\ models[job.key] = job.version
    /\ scalers[job.key] = job.version

\* a load for a key whose scaler file is missing returned not trained
C11_WitnessLoad ==
    /\ job.op = "load"
    /\ job.pc = "done"
    /\ ~job.found
    /\ modelFile[job.key] \notin {NoModel, Corrupt}
    /\ scalerFile[job.key] = NoModel
    /\ models[job.key] = NoModel

\* the raw rows a train run for (st, se) fetched, and the rows left of them
\* after feature construction
Fetched(t) == IF "query" \in t.excepted THEN {} ELSE StampsOf(t.st, t.se, TrainDays)
Usable(t) == _prepare_features(Fetched(t), t.st)

\* C12: a train run that fetched fewer than 100 raw rows returns
\* insufficient_data; one that fetched at least 100 raw rows of which fewer
\* than 50 remain after feature construction returns insufficient_features;
\* in both cases the run ends there, with the registry and the artifact
\* files as they were.
C12_InsufficientStatuses ==
    [][(JobFree /\ job'.op = "train") =>
        LET raw == Cardinality(Fetched(job'))
            usable == Cardinality(Usable(job'))
            untouched == /\ job'.pc = "done"
                         /\ models' = models
                         /\ scalers' = scalers
                         /\ modelFile' = modelFile
                         /\ scalerFile' = scalerFile
        IN /\ raw < 100 => job'.status = "insufficient_data" /\ untouched
           /\ (raw >= 100 /\ usable < 50) => job'.status = "insufficient_features" /\ untouched
           /\ (raw >= 100 /\ usable >= 50) =>
                job'.status \notin {"insufficient_data", "insufficient_features"}]_vars

\* 130 raw rows of which 49 were usable: insufficient_features
C12_Witness ==
    /\ job.op = "train"
    /\ job.pc = "done"
    /\ job.status = "insufficient_features"
    /\ Cardinality(Fetched(job)) >= 100
    /\ Cardinality(Usable(job)) = 49

\* 99 raw rows: insufficient_data
C12_WitnessRaw ==
    /\ job.op = "train"
    /\ job.status = "insufficient_data"
    /\ Cardinality(Fetched(job)) = 99

\* 130 raw rows of which exactly 50 were usable: the run went on to fit
C12_WitnessFifty ==
    /\ job.op = "train"
    /\ job.status = "success"
    /\ Cardinality(Usable(job)) = 50

\* C13: a train run during which an exception was raised (by the query that
\* fetches the training rows, by the fit, or while the artifacts were being
\* persisted) returns status error.
C13_TrainErrorBoundary ==
    (job.op = "train" /\ job.pc = "done" /\ job.excepted # {}) => job.status = "error"

\* the largest number of usable rows the split arithmetic is checked for
MaxSplitRows == 200

\* k = floor(0.8 * n), said without division
IsFloorOfEightTenths(k, n) == 5 * k <= 4 * n /\ 4 * n < 5 * (k + 1)

\* C14: a train run that got past the checks split its n usable rows in time
\* order: the training set is the first floor(0.8 n) rows, the evaluation set
\* the rest, every training row is earlier than every evaluation row, the
\* two sample counts add up to n, and the evaluation set is not empty; for
\* every n from 50 up the split index leaves at least one evaluation row.
C14_ChronologicalSplit ==
    /\ (job.op = "train" /\ (job.pc \in {"save_model", "save_scaler"} \/ job.status = "success")) =>
        LET X == Usable(job)
            n == Cardinality(X)
        IN /\ n >= 50
           /\ job.train_rows \cup job.test_rows = X
           /\ job.train_rows \cap job.test_rows = {}
           /\ IsFloorOfEightTenths(Cardinality(job.train_rows), n)
           /\ job.training_samples = Cardinality(job.train_rows)
           /\ job.test_samples = Cardinality(job.test_rows)
           /\ job.training_samples + job.test_samples = n
           /\ \A a \in job.train_rows : \A b \in job.test_rows : a < b
           /\ job.test_rows # {}
    /\ \A n \in 50..MaxSplitRows :
           /\ IsFloorOfEightTenths(SplitIdx(n), n)
           /\ n - SplitIdx(n) >= 1

\* a run over 106 usable rows: 84 for training, 22 for evaluation
C14_Witness ==
    /\ job.op = "train"
    /\ job.status = "success"
    /\ Cardinality(Usable(job)) = 106
    /\ job.training_samples = 84
    /\ job.test_samples = 22

\* a run over exactly 50 usable rows: 40 and 10
C14_WitnessFifty ==
    /\ job.op = "train"
    /\ job.status = "success"
    /\ job.training_samples = 40
    /\ job.test_samples = 10

RowsFor(st, pt) ==
    { i \in 1..Len(forecasts) :
        /\ forecasts[i].station_id = st
        /\ forecasts[i].predicted_level = pt.predicted_level
        /\ forecasts[i].confidence_interval_lower = pt.confidence_lower
        /\ forecasts[i].confidence_interval_upper = pt.confidence_upper
        /\ forecasts[i].horizon_hours = pt.horizon_hours }

C17_SymmetricBand ==
    calc.fn = "forecast_point" =>
        LET pt == calc.point
            p10 == 10 * calc.prediction
        IN /\ pt.predicted_level = p10
           /\ pt.confidence_upper - pt.predicted_level = pt.predicted_level - pt.confidence_lower
           /\ 10 * (pt.confidence_upper - pt.predicted_level) =
                IF p10 >= 0 THEN p10 ELSE 0 - p10
           /\ pt.confidence_lower <= pt.predicted_level
           /\ pt.predicted_level <= pt.confidence_upper

\* a point was built from a negative model output
C17_Witness ==
    /\ calc.fn = "forecast_point"
    /\ calc.prediction = -7
    /\ calc.point.confidence_lower = -77
    /\ calc.point.confidence_upper = -63

\* C18: the drought score is the sum of a level part in {0.3, 0.1, 0}, a
\* trend part in {0.2, 0.1, 0} and a proximity part in {0.3, 0.1, 0}, each
\* decided by its own signal, and lies in [0, 1] (scores in tenths).
C18_ScoreInUnitInterval ==
    calc.fn = "risk_score" =>
        /\ calc.level_part \in {3, 1, 0}
        /\ calc.trend_part \in {2, 1, 0}
        /\ calc.min_part \in {3, 1, 0}
        /\ calc.risk_score = calc.level_part + calc.trend_part + calc.min_part
        /\ calc.risk_score >= 0
        /\ calc.risk_score <= 10
        /\ calc.trend_part = (IF calc.trend < -10 THEN 2 ELSE IF calc.trend < -5 THEN 1 ELSE 0)

\* all three signals at their worst: 0.3 + 0.2 + 0.3
C18_Witness ==
    /\ calc.fn = "risk_score"
    /\ calc.level_part = 3
    /\ calc.trend_part = 2
    /\ calc.min_part = 3
    /\ calc.risk_score = 8

\* C19: with the trend and the mean, deviation and minimum of the history
\* held fixed, no higher current level has a higher drought score.
C19_ScoreMonotone ==
    calc.fn = "risk_score" =>
        \A b \in Levels :
            b >= calc.current_level =>
                RiskScore(b, calc.mean_level, calc.variance, calc.min_level, calc.trend, 1000)
                    <= calc.risk_score

\* a level below mean - std and within 10% of the minimum scores more than
\* a level two units higher
C19_Witness ==
    /\ calc.fn = "risk_score"
    /\ calc.current_level = 10
    /\ calc.min_level = 10
    /\ calc.mean_level = 12
    /\ calc.variance = 1
    /\ calc.risk_score >= 6
    /\ RiskScore(12, calc.mean_level, calc.variance, calc.min_level, calc.trend, 1000)
            < calc.risk_score

\* C20: an assessment run for a key with a reading in the last 90 days adds
\* exactly one DroughtRiskAssessment row, with the risk level and score it
\* returns; a run for a key without readings returns unknown with score 0
\* and adds no row.
C20_AssessmentPersisted ==
    [][(JobFree /\ job'.op = "assess") =>
        IF StampsOf(job'.st, job'.se, AssessDays) # {}
        THEN /\ Len(droughts') = Len(droughts) + 1
             /\ SubSeq(droughts', 1, Len(droughts)) = droughts
             /\ droughts'[Len(droughts')].risk_level = job'.risk_level
             /\ droughts'[Len(droughts')].risk_score = job'.risk_score
        ELSE /\ job'.risk_level = "unknown"
             /\ job'.risk_score = 0
             /\ droughts' = droughts]_vars

\* the level readings of a station in the window of estimate_recharge
LevelsOf(st) ==
    LET pts == SelectPoints(tsStore, st, "water_level", EstimateDays)
    IN [i \in 1..Len(pts) |-> pts[i].water_level]

\* C21: an estimate run over a window with at least 7 level readings returns
\* max(0, (last level - first level) * 1000) plus the total rainfall of the
\* window (levels in metres, rainfall and recharge in mm).
C21_RechargeFormula ==
    [][(JobFree /\ job'.op = "estimate" /\ Len(LevelsOf(job'.st)) >= MinLevelReadings) =>
        \E rainfall_data \in RainfallChoices :
            LET levels == LevelsOf(job'.st)
                change == levels[Len(levels)] - levels[1]
            IN job'.recharge_mm =
                  (IF change > 0 THEN change * 1000 ELSE 0) + SumSeq(rainfall_data)]_vars

\* the shapes of the four results
TrainStatuses == {"success", "insufficient_data", "insufficient_features", "error"}
RiskLevels == {"low", "medium", "high", "critical", "unknown"}
RechargeMethods == {"water_balance", "insufficient_data", "error"}
IsForecastPoint(pt) ==
    /\ DOMAIN pt = {"predicted_level", "confidence_lower", "confidence_upper", "horizon_hours"}
    /\ pt.horizon_hours \in Nat

\* C22: whatever fails (the query of the Time-Series Store, the session or
\* the commit of the relational store, the dump of an artifact, the fit), a
\* finished call has returned a result of its shape: a status for train, a
\* list of points for predict, a risk level with a score for assess, a method
\* with a recharge for estimate; no exception has reached the caller.
C22_WellFormedResults ==
    (job.pc = "done") =>
        /\ ~job.raised
        /\ (job.op = "train") => job.status \in TrainStatuses
        /\ (job.op = "predict") =>
                \A i \in 1..Len(job.points) : IsForecastPoint(job.points[i])
        /\ (job.op = "assess") => job.risk_level \in RiskLevels /\ job.risk_score \in 0..10
        /\ (job.op = "estimate") => job.method \in RechargeMethods /\ job.recharge_mm >= 0

\* predict with a model in the registry and a seed context, while the
\* relational store hands out no session
C22_Witness ==
    /\ job.op = "predict"
    /\ job.pc = "done"
    /\ job.found
    /\ job.context # << >>
    /\ job.excepted = {"session"}
    /\ job.points = << >>

\* a train run whose artifact could not be written
C22_WitnessSave ==
    /\ job.op = "train"
    /\ job.pc = "done"
    /\ "save" \in job.excepted
    /\ job.status = "success"

\* a group of 24 readings, one for each hour of the day
OnePerHour(g) ==
    /\ Len(g.values) = 24
    /\ { HourOf(g.timestamps[i]) : i \in 1..24 } = 0..23

\* the daily pattern that the detection step found for a group, if any
DailyFound(g) == { j \in 1..Len(g.found) : g.found[j].pattern_type = "daily" }

\* values that differ by one unit at most
NearConstant(values) ==
    \A a \in Range(values) : \A b \in Range(values) : a - b <= 1

C23_WitnessConstant ==
    \E i \in 1..Len(batch.groups) :
        /\ OnePerHour(batch.groups[i])
        /\ VarNum(batch.groups[i].values) = 0
        /\ batch.groups[i].found = << >>

\* the pair has a reading in the Time-Series Store
HasReading(st, se) ==
    \E i \in 1..Len(tsStore) : tsStore[i].station_id = st /\ tsStore[i].sensor_id = se

C25_IngestionNeverTrains ==
    [][/\ trainRuns' = trainRuns
       /\ job' = job
       /\ \A k \in ModelKeys :
            /\ models'[k] = models[k]
            /\ scalers'[k] = scalers[k]
            /\ modelFile'[k] = modelFile[k]
            /\ scalerFile'[k] = scalerFile[k]]_vars

\* a data message that the detector scored as an anomaly and a status message
\* were both handled; no model is registered and no artifact exists
C25_Witness ==
    /\ nmsgs = 2
    /\ cur.pc = "done"
    /\ anomalies # << >>
    /\ \E p \in Pairs : status[p].present
    /\ trainRuns = 0
    /\ \A k \in ModelKeys : models[k] = NoModel /\ modelFile[k] = NoModel

\* both handlers have returned and neither cache call raised
BothCached ==
    \A h \in Handlers : handlers[h].pc = "done" /\ "cache" \in Range(handlers[h].effects)
                                                /\ ~handlers[h].cacheFailed

\* C26: with two handlers of valid data messages of one key side by side, the
\* cache entry of the key never holds fields of both payloads: it is the
\* whole hash of one of them, and once both handlers have returned it is the
\* hash of the handler whose hset came last, with an expiry of 3600 s.
C26_NoMixedEntry ==
    LET e == latest[<< "S1", "W1" >>]
    IN /\ e.present => \E h \in Handlers :
            /\ handlers[h].pc \in {"hset", "expire", "done"}
            /\ e.hash = LatestHash(handlers[h].data)
       /\ BothCached =>
            /\ e.present
            /\ e.hash = LatestHash(handlers[writes[Len(writes)]].data)
            /\ e.ttl = LatestTTL

\* the hset of handler 2 came between the hset and the expire of handler 1,
\* the two payloads differ in value, and both handlers have returned
C26_Witness ==
    /\ BothCached
    /\ writes = << 1, 2 >>
    /\ handlers[1].data.value # handlers[2].data.value
    /\ handlers[1].data.timestamp # handlers[2].data.timestamp
    /\ latest[<< "S1", "W1" >>].hash = LatestHash(handlers[2].data)

\* C27: station ids are unique in the catalog. A create_station call whose
\* station_id is in the catalog ends with status 400 and leaves the catalog
\* as it was, a call with a new station_id whose commit goes through ends
\* with status 200 and adds exactly its station, and after every step, also
\* of two calls in flight together with one station_id, no two rows of the
\* catalog have the same station_id.
UniqueStationIds(rows) ==
    \A i, j \in 1..Len(rows) : rows[i].station_id = rows[j].station_id => i = j
C27_UniqueStationIds ==
    [][ /\ UniqueStationIds(catalog')
        /\ \A c \in Clients :
              requests[c].pc # "done" /\ requests'[c].pc = "done" =>
                LET station_id == requests[c].station_data.station_id
                    code == requests'[c].status_code
                IN /\ Existing(catalog, station_id) => code = 400 /\ catalog' = catalog
                   /\ ~Existing(catalog, station_id) =>
                        \/ code = 200 /\ catalog' = Append(catalog, requests[c].station_data)
                        \/ code = 500 /\ catalog' = catalog ]_vars
C27_Witness ==
    /\ requests[1].pc = "done" /\ requests[2].pc = "done"
    /\ requests[1].station_data.station_id = "NEW001"
    /\ requests[2].station_data.station_id = "NEW001"
    /\ requests[2].overlapped
    /\ requests[1].status_code = 400 /\ requests[2].status_code = 200
    /\ Len(catalog) = 2

\* C28: after a train run that returned success and wrote both artifact
\* files of its key, load_model for that key on a new service instance,
\* whose registry is empty, reports the model as found and registers the
\* regressor and the scaler of the files.
ArtifactsOfOneRun(key) == modelFile[key] > 0 /\ scalerFile[key] = modelFile[key]
C28_TrainedModelLoads ==
    [][ /\ job.op = "none"
        /\ \A k \in ModelKeys : models[k] = NoModel /\ scalers[k] = NoModel
        /\ job'.op = "load" /\ job'.pc = "done"
        /\ ArtifactsOfOneRun(job'.key)
        => /\ job'.found
           /\ models'[job'.key] = modelFile[job'.key]
           /\ scalers'[job'.key] = scalerFile[job'.key] ]_vars

\* C29: distinct (station_id, sensor_id) pairs never share a ForecastModel:
\* once train for a pair has returned success with its regressor and scaler
\* registered and both artifact files written, a step of train or load for
\* another pair leaves the registry entries and the artifact files of the
\* first pair as they were, also for identifiers that contain an underscore.
SlotOf(p) ==
    LET key == ModelKey(p[1], p[2])
    IN << models[key], scalers[key], modelFile[key], scalerFile[key] >>
C29_PairsOwnTheirModel ==
    [][ \A p \in RegistryPairs :
            /\ job.op = "train" /\ job.pc = "done" /\ job.status = "success"
            /\ << job.st, job.se >> = p
            /\ SlotOf(p) = << job.version, job.version, job.version, job.version >>
            /\ job'.op \in {"train", "load"}
            /\ << job'.st, job'.se >> # p
            => SlotOf(p)' = SlotOf(p) ]_vars

\* C30: the window against which a reading is scored does not contain the
\* reading itself: the values the detector read for mean and std are the
\* values of the key's points that were in the 30 day range before the
\* message's own point was written.
C30_WindowExcludesReading ==
    Scored(cur) /\ "store" \in Range(cur.effects) => cur.window = PriorWindow(cur)

============================================================================
